---- MODULE Spec2Model ----
(***************************************************************************)
(* Module graph (server/moduleGraph.ts) and HMR WebSocket channel          *)
(* (server/ws.ts) of the vite dev server, as a state machine.              *)
(*                                                                         *)
(* Strings (urls, ids, files) are records of their parts:                  *)
(*   pre ++ "/" ++ base ++ exts ++ "?" query ++ t=... ++ import ++ hash    *)
(* so that the url helpers act on them the way the regular expressions of  *)
(* the source act on the text.                                             *)
(***************************************************************************)
EXTENDS Integers, Sequences, FiniteSets, TLC

\* ------------------------------------------------------------- bounds
MaxProcs == 2
MaxNodes == 3
MaxImports == 2
MaxClients == 2
MaxSends == 3
MaxUpdates == 3
MaxErrors == 2
MaxLoads == 2

NULL == "null"
Procs == 1..MaxProcs

\* ------------------------------------------------------------- strings
Str(pre, base, exts, query, t, imp, hash) ==
  [pre |-> pre, base |-> base, exts |-> exts, query |-> query,
   t |-> t, imp |-> imp, hash |-> hash]

\* The id and file of a node that has none yet (null in the source).
NullStr == Str(NULL, "", <<>>, "", FALSE, FALSE, "")

FS_PREFIX == "/@fs/"

\* utils: url.replace(timestampRE, '').replace(trailingSeparatorRE, '')
removeTimestampQuery(url) == [url EXCEPT !.t = FALSE]

\* utils: url.replace(importQueryRE, '$1').replace(trailingSeparatorRE, '')
removeImportQuery(url) == [url EXCEPT !.imp = FALSE]

\* utils: url.replace(hashRE, '').replace(queryRE, '')
cleanUrl(url) == [url EXCEPT !.query = "", !.t = FALSE, !.imp = FALSE, !.hash = ""]

\* path.extname of a clean path: the last extension, '' when there is none
extname(path) == IF path.exts = <<>> THEN "" ELSE path.exts[Len(path.exts)]

\* String.prototype.endsWith on the pathname of a url
pathnameEndsWith(url, ext) == url.exts # <<>> /\ url.exts[Len(url.exts)] = ext

\* utils: path.posix.normalize, which drops "." segments and doubled slashes
normalizePre(pre) ==
  CASE pre = "/root/." -> "/root"
    [] pre = "/@fs//root" -> "/@fs/root"
    [] OTHER -> pre

normalizePath(file) == [file EXCEPT !.pre = normalizePre(file.pre)]

\* `${FS_PREFIX}${file}`
fsUrl(file) == [file EXCEPT !.pre = FS_PREFIX \o file.pre]

\* ------------------------------------------------------------- resolver
\* The files on disk the injected resolveId knows, with their extension.
DiskExt(base) ==
  CASE base = "a" -> ".js"
    [] base = "b" -> ".css"
    [] base = "c d" -> ".css"
    [] OTHER -> ""

\* The injected resolveId(url, ssr): a root-relative or /@fs/ url of a file on
\* disk resolves to the absolute path, its extension completed and its query kept;
\* anything else does not resolve.
resolveId(url, ssr) ==
  IF /\ url.pre \in {"", "/@fs//root"}
     /\ DiskExt(url.base) # ""
     /\ url.exts \in {<<>>, <<DiskExt(url.base)>>}
  THEN [found |-> TRUE,
        id |-> [url EXCEPT !.pre = "/root", !.exts = <<DiskExt(url.base)>>, !.hash = ""],
        meta |-> IF url.base = "b" THEN "meta" ELSE NULL]
  ELSE [found |-> FALSE, id |-> NullStr, meta |-> NULL]

\* The injected resolveId after the project moved: the same files, found under
\* another directory and with other metadata.
resolveIdMoved(url, ssr) ==
  IF resolveId(url, ssr).found
  THEN [found |-> TRUE,
        id |-> [resolveId(url, ssr).id EXCEPT !.pre = "/moved"],
        meta |-> "moved"]
  ELSE resolveId(url, ssr)

\* What the injected resolveId may answer for a url over the life of a server:
\* the file where it is, the file where it moved to, or nothing once it is deleted.
Answers(url, ssr) ==
  {resolveId(url, ssr), resolveIdMoved(url, ssr),
   [found |-> FALSE, id |-> NullStr, meta |-> NULL]}

\* The cleaning with a fault: the import marker is left in the url
resolveUrlCleanTimestampOnly(rawUrl) == removeTimestampQuery(rawUrl)

\* resolveUrl up to its await: the url handed to the resolver
resolveUrlClean(rawUrl) == removeImportQuery(removeTimestampQuery(rawUrl))

\* url.parse of a path: the pathname, search and hash of the url, with the
\* characters url.parse always escapes (a space among them) percent-encoded
autoEscape(base) == IF base = "c d" THEN "c%20d" ELSE base

parseUrl(url) == [url EXCEPT !.base = autoEscape(url.base)]

\* resolveUrl with a fault: a miss is not replaced by the url
resolveUrlFinishNoFallback(url, resolved) ==
  LET ext == extname(cleanUrl(resolved.id))
      parsed == parseUrl(url)
      outUrl == IF ext # "" /\ ~pathnameEndsWith(parsed, ext)
                THEN [parsed EXCEPT !.exts = Append(parsed.exts, ext)]
                ELSE url
  IN  [url |-> outUrl, resolvedId |-> resolved.id, meta |-> resolved.meta]

\* resolveUrl after its await: [url, resolvedId, meta] from the resolver's answer.
\* The url is rebuilt from its parsed parts only when an extension is appended.
resolveUrlFinish(url, resolved) ==
  LET resolvedId == IF resolved.found THEN resolved.id ELSE url
      ext == extname(cleanUrl(resolvedId))
      parsed == parseUrl(url)
      outUrl == IF ext # "" /\ ~pathnameEndsWith(parsed, ext)
                THEN [parsed EXCEPT !.exts = Append(parsed.exts, ext)]
                ELSE url
  IN  [url |-> outUrl, resolvedId |-> resolvedId,
       meta |-> IF resolved.found THEN resolved.meta ELSE NULL]

\* ------------------------------------------------------------- state
VARIABLES
  mods,              \* the ModuleNode objects, by handle 1..Len(mods)
  urlToModuleMap,    \* url -> handle
  idToModuleMap,     \* id -> handle
  fileToModulesMap,  \* file -> set of handles
  procs,             \* the async calls in flight, one per slot
  returned,          \* history: canonical url -> handles ensureEntryFromUrl returned
  last,              \* history: the operation that made the last step, and its result
  nUpdates,          \* history: the updateModuleInfo calls made, where a run bounds them
  clients,           \* wss.clients: socket -> readyState
  inbox,             \* socket -> the strings socket.send was given, in order
  bufferedError,     \* the single-slot error buffer
  nConn,             \* history: the connections made
  nSends,            \* history: the send calls made
  gotBuffered,       \* history: the sockets that were sent the buffered error
  lastSend,          \* history: the payload of the last send call
  chan,              \* the listeners of the channel, and the promise of close()
  env                \* process.env, the env files on disk, and the last loadEnv call

graphVars == <<mods, urlToModuleMap, idToModuleMap, fileToModulesMap>>
wsVars == <<clients, inbox, bufferedError, nConn, nSends, gotBuffered, lastSend, chan,
            env>>
vars == <<mods, urlToModuleMap, idToModuleMap, fileToModulesMap, procs, returned, last,
         nUpdates, clients, inbox, bufferedError, nConn, nSends, gotBuffered, lastSend,
         chan, env>>

Nodes == 1..Len(mods)

\* new ModuleNode(url)
ModuleNode(url) ==
  [url |-> url, id |-> NullStr, file |-> NullStr, meta |-> NULL, info |-> FALSE,
   importers |-> {}, importedModules |-> {}, acceptedHmrDeps |-> {},
   isSelfAccepting |-> FALSE,
   transformResult |-> FALSE, ssrTransformResult |-> FALSE, ssrModule |-> FALSE]

\* Map.prototype.get, 0 for undefined
MapGet(map, key) == IF key \in DOMAIN map THEN map[key] ELSE 0

\* Map.prototype.get of the file index, {} standing for a missing or empty bucket
Bucket(map, file) == IF file \in DOMAIN map THEN map[file] ELSE {}

MapSet(map, key, val) == (key :> val) @@ map

IdleProc == [pc |-> "idle"]

\* bufferedError = null
NoPayload == [type |-> NULL, seq |-> 0]

\* The nodes an in-flight call may still create: the model admits a call only when
\* the graph has room for what it may create.
Pending(p) ==
  CASE procs[p].pc = "idle" -> 0
    [] procs[p].op = "update" ->
         Cardinality({i \in 1..Len(procs[p].todo) : procs[p].todo[i].isUrl})
         + Cardinality({i \in 1..Len(procs[p].acc) : procs[p].acc[i].isUrl})
         + (IF procs[p].pc = "resolve" THEN 1 ELSE 0)
    [] procs[p].op = "ensure" -> 1
    [] OTHER -> 0

RECURSIVE SumPending(_)
SumPending(S) ==
  IF S = {} THEN 0
  ELSE LET p == CHOOSE q \in S : TRUE IN Pending(p) + SumPending(S \ {p})

Room(k) == Len(mods) + SumPending(Procs) + k <= MaxNodes

\* createWebSocketServer(server, config, httpsOptions): which listener the channel
\* is mounted on.  "shared": wsServer is given, wss has noServer and the upgrade
\* handler filters; "port": ws runs its own server on the port; "https": an inline
\* https server is created, listens on the port, and wss is mounted on it.
Modes == {"shared", "port", "https"}

NoUpgrade == [protocol |-> "", claimed |-> FALSE, socket |-> 0, seen |-> FALSE]

\* history: no 'error' event yet
NoError == [code |-> "", atSend |-> 0]

Chan(mode) ==
  [mode |-> mode,
   wss |-> "listening",
   httpsServer |-> IF mode = "https" THEN "listening" ELSE "undefined",
   promise |-> "none",
   settled |-> 0,
   reason |-> "",
   terminated |-> {},
   upgrade |-> NoUpgrade,
   logged |-> <<>>,
   nErrors |-> 0,
   lastError |-> NoError]

Constructed(mode) ==
  /\ mods = <<>>
  /\ urlToModuleMap = <<>>
  /\ idToModuleMap = <<>>
  /\ fileToModulesMap = <<>>
  /\ procs = [p \in Procs |-> IdleProc]
  /\ returned = <<>>
  /\ last = [op |-> "init"]
  /\ nUpdates = 0
  /\ clients = <<>>
  /\ inbox = <<>>
  /\ bufferedError = NoPayload
  /\ nConn = 0
  /\ nSends = 0
  /\ gotBuffered = {}
  /\ lastSend = NoPayload
  /\ chan = Chan(mode)
  /\ env = [processEnv |-> <<>>, disk |-> <<>>, nLoads |-> 0, mode |-> "",
            raised |-> FALSE, out |-> <<>>, looked |-> <<>>]

\* the server of the dev server: the channel shares the main HTTP listener
Init == Constructed("shared")

\* ------------------------------------------------------------- lookups
\* getModuleById(id)
getModuleById(id) == MapGet(idToModuleMap, removeTimestampQuery(id))

\* getModulesByFile(file)
getModulesByFile(file) == Bucket(fileToModulesMap, file)

\* ------------------------------------------------------------- ensureEntryFromUrl
\* The creation branch with a fault: the node gets a file bucket of its own
newEntryOwnBucket(r) ==
  LET h == Len(mods) + 1
      file == cleanUrl(r.resolvedId)
      node == [ModuleNode(r.url) EXCEPT !.meta = r.meta, !.id = r.resolvedId, !.file = file]
  IN  [mods |-> Append(mods, node),
       urlToModuleMap |-> MapSet(urlToModuleMap, r.url, h),
       idToModuleMap |-> MapSet(idToModuleMap, r.resolvedId, h),
       fileToModulesMap |-> MapSet(fileToModulesMap, file, {h}),
       mod |-> h]

\* The creation branch of ensureEntryFromUrl: new ModuleNode(url) with its meta,
\* id and file, registered in the three indices. r is resolveUrl's result; the
\* value is the graph after it and the node made.
newEntry(r) ==
  LET h == Len(mods) + 1
      file == cleanUrl(r.resolvedId)
      node == [ModuleNode(r.url) EXCEPT !.meta = r.meta, !.id = r.resolvedId, !.file = file]
  IN  [mods |-> Append(mods, node),
       urlToModuleMap |-> MapSet(urlToModuleMap, r.url, h),
       idToModuleMap |-> MapSet(idToModuleMap, r.resolvedId, h),
       fileToModulesMap |-> MapSet(fileToModulesMap, file,
                                   Bucket(fileToModulesMap, file) \cup {h}),
       mod |-> h]

\* The block with a fault: the url index is not looked at after the await.
ensureEntryCommitNoCheck(r) == newEntry(r)

\* The block with a fault: a node found under the url takes the id and meta of
\* this resolution and is registered under that id.
ensureEntryCommitRebind(r) ==
  LET h == MapGet(urlToModuleMap, r.url)
  IN  IF h # 0
      THEN [mods |-> [mods EXCEPT ![h].id = r.resolvedId, ![h].meta = r.meta],
            urlToModuleMap |-> urlToModuleMap,
            idToModuleMap |-> MapSet(idToModuleMap, r.resolvedId, h),
            fileToModulesMap |-> fileToModulesMap,
            mod |-> h]
      ELSE newEntry(r)

\* ensureEntryFromUrl after `await this.resolveUrl`: one synchronous block that
\* looks the url up and, when it is missing, creates and registers the node.
ensureEntryCommit(r) ==
  IF MapGet(urlToModuleMap, r.url) # 0
  THEN [mods |-> mods, urlToModuleMap |-> urlToModuleMap,
        idToModuleMap |-> idToModuleMap, fileToModulesMap |-> fileToModulesMap,
        mod |-> MapGet(urlToModuleMap, r.url)]
  ELSE newEntry(r)

\* The history of what ensureEntryFromUrl returned for a canonical url.
Returned(url) == IF url \in DOMAIN returned THEN returned[url] ELSE {}
NoteReturned(url, h) == MapSet(returned, url, Returned(url) \cup {h})

\* Every other call in flight has been interleaved with.
Interleave(p, rec) ==
  [q \in Procs |->
     IF q = p THEN rec
     ELSE IF procs[q].pc = "idle" THEN procs[q]
     ELSE [procs[q] EXCEPT !.solo = FALSE]]

OthersIdle(p) == \A q \in Procs \ {p} : procs[q].pc = "idle"

\* History: the url a call asks for has its canonical url in the url index.
Registered(url, ssr) ==
  MapGet(urlToModuleMap, resolveUrlFinish(url, resolveId(url, ssr)).url) # 0

\* ensureEntryFromUrl(rawUrl, ssr) up to the await of the resolver
EnsureStart(p, rawUrl, ssr) ==
  /\ p \in Procs
  /\ procs[p].pc = "idle"
  /\ Room(1)
  /\ procs' = Interleave(p, [pc |-> "resolve", op |-> "ensure", raw |-> rawUrl,
                             url |-> resolveUrlClean(rawUrl), ssr |-> ssr,
                             fresh |-> ~Registered(resolveUrlClean(rawUrl), ssr),
                             solo |-> OthersIdle(p)])
  /\ last' = [op |-> "start"]
  /\ UNCHANGED <<graphVars, returned>>

\* The resumption with a fault: a call resumes only when every call of a lower slot
\* has returned, as under a lock held across the await
EnsureReturnInTurn(p) ==
  /\ procs[p].pc = "resolve"
  /\ procs[p].op = "ensure"
  /\ \A q \in Procs : q < p => procs[q].pc = "idle"
  /\ LET r == resolveUrlFinish(procs[p].url, resolveId(procs[p].url, procs[p].ssr))
         G == ensureEntryCommit(r)
     IN  /\ mods' = G.mods
         /\ urlToModuleMap' = G.urlToModuleMap
         /\ idToModuleMap' = G.idToModuleMap
         /\ fileToModulesMap' = G.fileToModulesMap
         /\ returned' = NoteReturned(r.url, G.mod)
         /\ last' = [op |-> "ensure", url |-> r.url, fresh |-> procs[p].fresh,
                     created |-> (G.mod > Len(mods)), ret |-> G.mod]
  /\ procs' = Interleave(p, IdleProc)

\* the resolver answers: the rest of resolveUrl and of ensureEntryFromUrl
EnsureReturn(p) ==
  /\ procs[p].pc = "resolve"
  /\ procs[p].op = "ensure"
  /\ LET r == resolveUrlFinish(procs[p].url, resolveId(procs[p].url, procs[p].ssr))
         G == ensureEntryCommit(r)
     IN  /\ mods' = G.mods
         /\ urlToModuleMap' = G.urlToModuleMap
         /\ idToModuleMap' = G.idToModuleMap
         /\ fileToModulesMap' = G.fileToModulesMap
         /\ returned' = NoteReturned(r.url, G.mod)
         /\ last' = [op |-> "ensure", url |-> r.url, fresh |-> procs[p].fresh,
                     created |-> (G.mod > Len(mods)), ret |-> G.mod]
  /\ procs' = Interleave(p, IdleProc)

\* the resolver answers `resolved`, which is not bound to what it answered before:
\* the rest of resolveUrl and of ensureEntryFromUrl
EnsureResolved(p, resolved) ==
  /\ procs[p].pc = "resolve"
  /\ procs[p].op = "ensure"
  /\ LET r == resolveUrlFinish(procs[p].url, resolved)
         G == ensureEntryCommit(r)
     IN  /\ mods' = G.mods
         /\ urlToModuleMap' = G.urlToModuleMap
         /\ idToModuleMap' = G.idToModuleMap
         /\ fileToModulesMap' = G.fileToModulesMap
         /\ returned' = NoteReturned(r.url, G.mod)
         /\ last' = [op |-> "ensure", url |-> r.url, fresh |-> procs[p].fresh,
                     created |-> (G.mod > Len(mods)), ret |-> G.mod,
                     resolvedId |-> r.resolvedId, meta |-> r.meta]
  /\ procs' = Interleave(p, IdleProc)

\* getModuleByUrl with a fault: every node is searched for the url, not the index
getModuleByUrlAnyNode(rawUrl, ssr) ==
  LET url == resolveUrlClean(rawUrl)
      canon == resolveUrlFinish(url, resolveId(url, ssr)).url
      found == {m \in Nodes : mods[m].url = canon}
  IN  IF found = {} THEN 0 ELSE CHOOSE m \in found : \A k \in found : m <= k

\* getModuleByUrl(rawUrl, ssr): the url index under the canonical url, 0 for
\* undefined. It reads the index once, after its await.
getModuleByUrl(rawUrl, ssr) ==
  LET url == resolveUrlClean(rawUrl)
  IN  MapGet(urlToModuleMap, resolveUrlFinish(url, resolveId(url, ssr)).url)

GetModuleByUrl(rawUrl, ssr) ==
  /\ last' = [op |-> "lookup", raw |-> rawUrl, ret |-> getModuleByUrl(rawUrl, ssr)]
  /\ procs' = Interleave(0, IdleProc)
  /\ UNCHANGED <<graphVars, returned>>

GetModuleById(id) ==
  /\ last' = [op |-> "byId", id |-> id, ret |-> getModuleById(id)]
  /\ procs' = Interleave(0, IdleProc)
  /\ UNCHANGED <<graphVars, returned>>

GetModulesByFile(file) ==
  /\ last' = [op |-> "byFile", file |-> file, ret |-> getModulesByFile(file)]
  /\ procs' = Interleave(0, IdleProc)
  /\ UNCHANGED <<graphVars, returned>>

\* ------------------------------------------------------------- createFileOnlyEntry
\* createFileOnlyEntry with a fault: a node of the bucket is matched by its url alone
createFileOnlyEntryUrlOnly(rawFile) ==
  LET file == normalizePath(rawFile)
      url == fsUrl(file)
      bucket == Bucket(fileToModulesMap, file)
      found == {m \in bucket : mods[m].url = url}
      h == Len(mods) + 1
  IN  IF found # {}
      THEN [mods |-> mods,
            fileToModulesMap |-> MapSet(fileToModulesMap, file, bucket),
            mod |-> CHOOSE m \in found : \A k \in found : m <= k]
      ELSE [mods |-> Append(mods, [ModuleNode(url) EXCEPT !.file = file]),
            fileToModulesMap |-> MapSet(fileToModulesMap, file, bucket \cup {h}),
            mod |-> h]

createFileOnlyEntry(rawFile) ==
  LET file == normalizePath(rawFile)
      url == fsUrl(file)
      bucket == Bucket(fileToModulesMap, file)
      found == {m \in bucket : mods[m].url = url \/ mods[m].id = file}
      h == Len(mods) + 1
  IN  IF found # {}
      THEN [mods |-> mods,
            fileToModulesMap |-> MapSet(fileToModulesMap, file, bucket),
            mod |-> CHOOSE m \in found : \A k \in found : m <= k]
      ELSE [mods |-> Append(mods, [ModuleNode(url) EXCEPT !.file = file]),
            fileToModulesMap |-> MapSet(fileToModulesMap, file, bucket \cup {h}),
            mod |-> h]

CreateFileOnlyEntry(rawFile) ==
  /\ Room(1)
  /\ LET G == createFileOnlyEntry(rawFile)
     IN  /\ mods' = G.mods
         /\ fileToModulesMap' = G.fileToModulesMap
         /\ last' = [op |-> "fileOnly", file |-> normalizePath(rawFile),
                     created |-> (G.mod > Len(mods)), ret |-> G.mod]
  /\ procs' = Interleave(0, IdleProc)
  /\ UNCHANGED <<urlToModuleMap, idToModuleMap, returned>>

\* ------------------------------------------------------------- invalidation
\* Set.prototype.forEach visits in insertion order; the model visits by handle.
First(S) == CHOOSE m \in S : \A k \in S : m <= k

\* A cascade's state: the nodes, the seen set, and the log of the nodes whose
\* ssrModule it cleared, in order (one entry per pass beyond the seen check).
RECURSIVE invalidateSSRModule(_, _)
RECURSIVE forEachImporter(_, _)
\* invalidateSSRModule with a fault: the node is cleared before the seen check
invalidateSSRModuleClearFirst(mod, st) ==
  IF mod \in st.seen
  THEN [st EXCEPT !.mods[mod].ssrModule = FALSE, !.visits = Append(@, mod)]
  ELSE forEachImporter(st.mods[mod].importers,
                       [mods |-> [st.mods EXCEPT ![mod].ssrModule = FALSE],
                        seen |-> st.seen \cup {mod},
                        visits |-> Append(st.visits, mod)])

\* invalidateSSRModule with a fault: the cascade also clears the client-side
\* result of what it visits
invalidateSSRModuleAndTransform(mod, st) ==
  IF mod \in st.seen
  THEN st
  ELSE forEachImporter(st.mods[mod].importers,
                       [mods |-> [st.mods EXCEPT ![mod].ssrModule = FALSE,
                                                 ![mod].transformResult = FALSE],
                        seen |-> st.seen \cup {mod},
                        visits |-> Append(st.visits, mod)])

invalidateSSRModule(mod, st) ==
  IF mod \in st.seen
  THEN st
  ELSE forEachImporter(st.mods[mod].importers,
                       [mods |-> [st.mods EXCEPT ![mod].ssrModule = FALSE],
                        seen |-> st.seen \cup {mod},
                        visits |-> Append(st.visits, mod)])

forEachImporter(S, st) ==
  IF S = {} THEN st
  ELSE forEachImporter(S \ {First(S)}, invalidateSSRModule(First(S), st))

\* invalidateModule with a fault: the SSR transform result is left in place
invalidateModuleKeepSsrTransform(mod, st) ==
  invalidateSSRModule(mod,
    [st EXCEPT !.mods[mod].info = FALSE,
               !.mods[mod].transformResult = FALSE])

\* invalidateModule with a fault: the node's imports are dropped with its caches
invalidateModuleDropImports(mod, st) ==
  invalidateSSRModule(mod,
    [st EXCEPT !.mods[mod].info = FALSE,
               !.mods[mod].transformResult = FALSE,
               !.mods[mod].ssrTransformResult = FALSE,
               !.mods[mod].importedModules = {}])

\* invalidateModule with a fault: a node that is in seen is left as it is
invalidateModuleSkipSeen(mod, st) ==
  IF mod \in st.seen THEN st
  ELSE invalidateSSRModule(mod,
         [st EXCEPT !.mods[mod].info = FALSE,
                    !.mods[mod].transformResult = FALSE,
                    !.mods[mod].ssrTransformResult = FALSE])

\* invalidateModule(mod, seen)
invalidateModule(mod, st) ==
  invalidateSSRModule(mod,
    [st EXCEPT !.mods[mod].info = FALSE,
               !.mods[mod].transformResult = FALSE,
               !.mods[mod].ssrTransformResult = FALSE])

\* The loop over the modules with a fault: each module is invalidated under a seen
\* set of its own
RECURSIVE forEachInvalidateFreshSeen(_, _)
forEachInvalidateFreshSeen(S, st) ==
  IF S = {} THEN st
  ELSE forEachInvalidateFreshSeen(S \ {First(S)},
                                  invalidateModule(First(S), [st EXCEPT !.seen = {}]))

\* mods.forEach((mod) => this.invalidateModule(mod, seen))
RECURSIVE forEachInvalidate(_, _)
forEachInvalidate(S, st) ==
  IF S = {} THEN st
  ELSE forEachInvalidate(S \ {First(S)}, invalidateModule(First(S), st))

Cascade(seen) == [mods |-> mods, seen |-> seen, visits |-> <<>>]

\* the nodes invalidateAll walks: the values of idToModuleMap
IdIndexed == {idToModuleMap[k] : k \in DOMAIN idToModuleMap}

InvalidateModule(n, seen) ==
  /\ n \in Nodes
  /\ LET st == invalidateModule(n, Cascade(seen))
     IN  /\ mods' = st.mods
         /\ last' = [op |-> "invalidate", targets |-> {n}, seen0 |-> seen,
                     seen |-> st.seen, visits |-> st.visits]
  /\ procs' = Interleave(0, IdleProc)
  /\ UNCHANGED <<urlToModuleMap, idToModuleMap, fileToModulesMap, returned>>

OnFileChange(file) ==
  /\ LET targets == getModulesByFile(file)
         st == forEachInvalidate(targets, Cascade({}))
     IN  /\ mods' = st.mods
         /\ last' = [op |-> "fileChange", targets |-> targets, seen0 |-> {},
                     seen |-> st.seen, visits |-> st.visits]
  /\ procs' = Interleave(0, IdleProc)
  /\ UNCHANGED <<urlToModuleMap, idToModuleMap, fileToModulesMap, returned>>

InvalidateAll ==
  /\ LET st == forEachInvalidate(IdIndexed, Cascade({}))
     IN  /\ mods' = st.mods
         /\ last' = [op |-> "invalidateAll", targets |-> IdIndexed, seen0 |-> {},
                     seen |-> st.seen, visits |-> st.visits]
  /\ procs' = Interleave(0, IdleProc)
  /\ UNCHANGED <<urlToModuleMap, idToModuleMap, fileToModulesMap, returned>>

\* The callers that fill a node's caches (transformRequest, ssrLoadModule, the
\* plugin container): info, transformResult, ssrTransformResult and ssrModule set.
TransformAndLoad(n) ==
  /\ n \in Nodes
  /\ ~mods[n].ssrModule
  /\ mods' = [mods EXCEPT ![n].info = TRUE, ![n].transformResult = TRUE,
                          ![n].ssrTransformResult = TRUE, ![n].ssrModule = TRUE]
  /\ last' = [op |-> "fill"]
  /\ procs' = Interleave(0, IdleProc)
  /\ UNCHANGED <<urlToModuleMap, idToModuleMap, fileToModulesMap, returned>>

\* ------------------------------------------------------------- updateModuleInfo
\* An entry of the importedModules / acceptedModules argument: a url or a node.
UrlItem(url) == [isUrl |-> TRUE, url |-> url, node |-> 0]
NodeItem(n) == [isUrl |-> FALSE, url |-> NullStr, node |-> n]

Undefined == [isSet |-> FALSE, nodes |-> {}]
SetOf(S) == [isSet |-> TRUE, nodes |-> S]

\* A call's view of its prevImports: the Set object it took from the node, which
\* is another call's nextImports when that call is still running.
PrevImports(ps, me) == IF me.prevRef # 0 THEN ps[me.prevRef].next ELSE me.prev

\* dep.importers.add(mod); nextImports.add(dep)
addImport(X, dep) ==
  LET me == X.me
      next == me.next \cup {dep}
      m1 == [X.mods EXCEPT ![dep].importers = @ \cup {me.mod}]
  IN  [X EXCEPT !.me.next = next,
                !.mods = IF me.nextLive
                         THEN [m1 EXCEPT ![me.mod].importedModules = next]
                         ELSE m1]

\* The clean-up with a fault: the Set is made before the loop, so an empty Set
\* is returned
removeNoLongerImportedEagerSet(X) ==
  LET me == X.me
      dropped == PrevImports(X.procs, me) \ me.next
      m1 == [n \in DOMAIN X.mods |->
               IF n \in dropped
               THEN [X.mods[n] EXCEPT !.importers = @ \ {me.mod}]
               ELSE X.mods[n]]
      orphans == {d \in dropped : m1[d].importers = {}}
  IN  [X EXCEPT !.mods = m1, !.me.noLongerImported = SetOf(orphans)]

\* prevImports.forEach: drop the back-edge of every dep no longer imported, and
\* collect those left without importers
removeNoLongerImported(X) ==
  LET me == X.me
      dropped == PrevImports(X.procs, me) \ me.next
      m1 == [n \in DOMAIN X.mods |->
               IF n \in dropped
               THEN [X.mods[n] EXCEPT !.importers = @ \ {me.mod}]
               ELSE X.mods[n]]
      orphans == {d \in dropped : m1[d].importers = {}}
  IN  [X EXCEPT !.mods = m1,
                !.me.noLongerImported = IF orphans = {} THEN Undefined ELSE SetOf(orphans)]

\* The reset with a fault: the new Set starts from the old acceptedHmrDeps
resetAcceptedKeepOld(X) ==
  [X EXCEPT !.me.deps = X.mods[X.me.mod].acceptedHmrDeps,
            !.me.depsLive = TRUE,
            !.me.phase = "accepted",
            !.procs = [q \in DOMAIN X.procs |->
                         IF X.procs[q].pc # "idle" /\ X.procs[q].op = "update"
                            /\ X.procs[q].mod = X.me.mod
                         THEN [X.procs[q] EXCEPT !.depsLive = FALSE]
                         ELSE X.procs[q]]]

\* const deps = (mod.acceptedHmrDeps = new Set())
resetAccepted(X) ==
  [X EXCEPT !.mods[X.me.mod].acceptedHmrDeps = {},
            !.me.deps = {},
            !.me.depsLive = TRUE,
            !.me.phase = "accepted",
            !.procs = [q \in DOMAIN X.procs |->
                         IF X.procs[q].pc # "idle" /\ X.procs[q].op = "update"
                            /\ X.procs[q].mod = X.me.mod
                         THEN [X.procs[q] EXCEPT !.depsLive = FALSE]
                         ELSE X.procs[q]]]

\* deps.add(dep)
addAccepted(X, dep) ==
  LET deps == X.me.deps \cup {dep}
  IN  [X EXCEPT !.me.deps = deps,
                !.mods = IF X.me.depsLive
                         THEN [X.mods EXCEPT ![X.me.mod].acceptedHmrDeps = deps]
                         ELSE X.mods]

\* the call suspends on `await this.ensureEntryFromUrl(url, ssr)`
suspendOn(X, url) == [X EXCEPT !.me.pc = "resolve", !.me.url = resolveUrlClean(url)]

\* The second loop, run until it suspends or the call returns.
RECURSIVE runAccepted(_)
runAccepted(X) ==
  IF X.me.acc = <<>>
  THEN [X EXCEPT !.me.pc = "return"]
  ELSE LET item == Head(X.me.acc)
           X1 == [X EXCEPT !.me.acc = Tail(@)]
       IN  IF item.isUrl THEN suspendOn(X1, item.url)
           ELSE runAccepted(addAccepted(X1, item.node))

\* The first loop, run until it suspends; at its end the clean-up of the old
\* imports and the second loop follow in the same synchronous run.
RECURSIVE runImports(_)
runImports(X) ==
  IF X.me.todo = <<>>
  THEN runAccepted(resetAccepted(removeNoLongerImported(X)))
  ELSE LET item == Head(X.me.todo)
           X1 == [X EXCEPT !.me.todo = Tail(@)]
       IN  IF item.isUrl THEN suspendOn(X1, item.url)
           ELSE runImports(addImport(X1, item.node))

\* What a synchronous run of call p leaves: when the call returned, its slot is
\* free again and the calls that hold its nextImports as their prevImports keep
\* the final set.
Settle(p, X) ==
  IF X.me.pc = "return"
  THEN [q \in Procs |->
          IF q = p THEN IdleProc
          ELSE IF X.procs[q].pc # "idle" /\ X.procs[q].op = "update"
                  /\ X.procs[q].prevRef = p
               THEN [X.procs[q] EXCEPT !.prev = X.me.next, !.prevRef = 0, !.solo = FALSE]
               ELSE IF X.procs[q].pc = "idle" THEN X.procs[q]
               ELSE [X.procs[q] EXCEPT !.solo = FALSE]]
  ELSE [q \in Procs |->
          IF q = p THEN X.me
          ELSE IF X.procs[q].pc = "idle" THEN X.procs[q]
          ELSE [X.procs[q] EXCEPT !.solo = FALSE]]

UpdateLast(p, X) ==
  IF X.me.pc = "return"
  THEN [op |-> "update", p |-> p, mod |-> X.me.mod, solo |-> X.me.solo,
        ret |-> X.me.noLongerImported, args |-> X.me.args,
        isSelfAccepting |-> X.me.isSelfAccepting]
  ELSE [op |-> "suspend"]

UrlCount(items) == Cardinality({i \in 1..Len(items) : items[i].isUrl})

\* The running call, if any, whose nextImports is the node's importedModules.
LiveImportsOwner(mod) ==
  {q \in Procs : procs[q].pc # "idle" /\ procs[q].op = "update"
                 /\ procs[q].mod = mod /\ procs[q].nextLive}

\* updateModuleInfo(mod, importedModules, acceptedModules, isSelfAccepting, ssr)
\* from its call to its first await (or to its return when it awaits nothing)
UpdateStart(p, mod, imported, accepted, isSelfAccepting, ssr) ==
  /\ p \in Procs
  /\ procs[p].pc = "idle"
  /\ mod \in Nodes
  /\ Room(UrlCount(imported) + UrlCount(accepted))
  /\ LET owner == LiveImportsOwner(mod)
         me == [pc |-> "run", op |-> "update", mod |-> mod, ssr |-> ssr,
                url |-> NullStr, dep |-> 0, phase |-> "imports",
                todo |-> imported, acc |-> accepted,
                isSelfAccepting |-> isSelfAccepting,
                prev |-> IF owner = {} THEN mods[mod].importedModules ELSE {},
                prevRef |-> IF owner = {} THEN 0 ELSE First(owner),
                prev0 |-> mods[mod].importedModules,
                next |-> {}, nextLive |-> TRUE,
                deps |-> {}, depsLive |-> FALSE,
                noLongerImported |-> Undefined,
                solo |-> OthersIdle(p),
                args |-> [imported |-> {imported[i] : i \in 1..Len(imported)},
                          accepted |-> {accepted[i] : i \in 1..Len(accepted)}]]
         X0 == [me |-> me,
                mods |-> [mods EXCEPT ![mod].isSelfAccepting = isSelfAccepting,
                                      ![mod].importedModules = {}],
                procs |-> [q \in Procs |->
                             IF q \in owner THEN [procs[q] EXCEPT !.nextLive = FALSE]
                             ELSE procs[q]]]
         X == runImports(X0)
     IN  /\ mods' = X.mods
         /\ procs' = Settle(p, X)
         /\ last' = UpdateLast(p, X)
  /\ UNCHANGED <<urlToModuleMap, idToModuleMap, fileToModulesMap, returned>>

\* the resolver answers the call's inner ensureEntryFromUrl, which commits and returns
UpdateResolve(p) ==
  /\ procs[p].pc = "resolve"
  /\ procs[p].op = "update"
  /\ LET r == resolveUrlFinish(procs[p].url, resolveId(procs[p].url, procs[p].ssr))
         G == ensureEntryCommit(r)
     IN  /\ mods' = G.mods
         /\ urlToModuleMap' = G.urlToModuleMap
         /\ idToModuleMap' = G.idToModuleMap
         /\ fileToModulesMap' = G.fileToModulesMap
         /\ returned' = NoteReturned(r.url, G.mod)
         /\ procs' = Interleave(p, [procs[p] EXCEPT !.pc = "resumed", !.dep = G.mod])
         /\ last' = [op |-> "ensure", url |-> r.url, fresh |-> FALSE,
                     created |-> (G.mod > Len(mods)), ret |-> G.mod]

\* the call resumes with dep, and runs to its next await or to its return
UpdateResume(p) ==
  /\ procs[p].pc = "resumed"
  /\ LET X0 == [me |-> [procs[p] EXCEPT !.pc = "run"], mods |-> mods, procs |-> procs]
         X == IF procs[p].phase = "imports"
              THEN runImports(addImport(X0, procs[p].dep))
              ELSE runAccepted(addAccepted(X0, procs[p].dep))
     IN  /\ mods' = X.mods
         /\ procs' = Settle(p, X)
         /\ last' = UpdateLast(p, X)
  /\ UNCHANGED <<urlToModuleMap, idToModuleMap, fileToModulesMap, returned>>

\* The resolver rejects: `await this.resolveId` throws in resolveUrl, and with no
\* try/catch on the way the rejection ends ensureEntryFromUrl and reaches its caller.
EnsureReject(p) ==
  /\ procs[p].pc = "resolve"
  /\ procs[p].op = "ensure"
  /\ procs' = Interleave(p, IdleProc)
  /\ last' = [op |-> "reject", call |-> "ensure", raised |-> TRUE, mod |-> 0]
  /\ UNCHANGED <<graphVars, returned>>

\* The resolver rejects inside updateModuleInfo's `await this.ensureEntryFromUrl`:
\* the call ends there, what it did before the await stays.
UpdateReject(p) ==
  /\ procs[p].pc = "resolve"
  /\ procs[p].op = "update"
  /\ procs' = Settle(p, [me |-> [procs[p] EXCEPT !.pc = "return"],
                         mods |-> mods, procs |-> procs])
  /\ last' = [op |-> "reject", call |-> "update", raised |-> TRUE, mod |-> procs[p].mod]
  /\ UNCHANGED <<graphVars, returned>>

\* ------------------------------------------------------------- HMR channel
\* WebSocket.readyState of the sockets the server holds
OPEN == 1
CLOSING == 2

\* JSON.stringify(payload): what goes on the wire
JSONstringify(payload) == [json |-> payload]

Connected == [type |-> "connected", seq |-> 0]

\* The connection handler with a fault: the buffer is not cleared after it was sent
onConnectionKeepBuffer(socket) ==
  /\ inbox' = MapSet(inbox, socket,
                IF bufferedError # NoPayload
                THEN <<JSONstringify(Connected), JSONstringify(bufferedError)>>
                ELSE <<JSONstringify(Connected)>>)
  /\ gotBuffered' = IF bufferedError # NoPayload THEN gotBuffered \cup {socket}
                    ELSE gotBuffered
  /\ UNCHANGED bufferedError

\* The connection handler with a fault: the buffered error is sent before the
\* acknowledgment
onConnectionErrorFirst(socket) ==
  /\ inbox' = MapSet(inbox, socket,
                IF bufferedError # NoPayload
                THEN <<JSONstringify(bufferedError), JSONstringify(Connected)>>
                ELSE <<JSONstringify(Connected)>>)
  /\ gotBuffered' = IF bufferedError # NoPayload THEN gotBuffered \cup {socket}
                    ELSE gotBuffered
  /\ bufferedError' = NoPayload

\* wss.on('connection', (socket) => ...), run when the ws server has completed an
\* upgrade and added the open socket to wss.clients
onConnection(socket) ==
  /\ inbox' = MapSet(inbox, socket,
                IF bufferedError # NoPayload
                THEN <<JSONstringify(Connected), JSONstringify(bufferedError)>>
                ELSE <<JSONstringify(Connected)>>)
  /\ gotBuffered' = IF bufferedError # NoPayload THEN gotBuffered \cup {socket}
                    ELSE gotBuffered
  /\ bufferedError' = NoPayload

\* the ws server completes an upgrade: the socket is added to wss.clients and the
\* 'connection' event is emitted
handleUpgrade ==
  /\ nConn < MaxClients
  /\ nConn' = nConn + 1
  /\ clients' = MapSet(clients, nConn + 1, OPEN)
  /\ onConnection(nConn + 1)

Connection ==
  /\ handleUpgrade
  /\ UNCHANGED <<nSends, lastSend, chan>>

\* The readyState test with a fault: the readyState is not looked at
isOpenAny(readyState) == TRUE

\* client.readyState === 1
isOpen(readyState) == readyState = OPEN

\* The fan-out with a fault: the string goes in front of what the socket was given
fanOutInFront(stringified) ==
  [s \in DOMAIN inbox |->
     IF s \in DOMAIN clients /\ clients[s] = OPEN
     THEN <<stringified>> \o inbox[s]
     ELSE inbox[s]]

\* the fan-out of send: every client of wss.clients that is open gets the string
fanOut(stringified) ==
  [s \in DOMAIN inbox |->
     IF s \in DOMAIN clients /\ isOpen(clients[s])
     THEN Append(inbox[s], stringified)
     ELSE inbox[s]]

\* The buffering test with a fault: the client set is not looked at
buffersAnyError(payload) == payload.type = "error"

\* payload.type === 'error' && !wss.clients.size
buffers(payload) == payload.type = "error" /\ DOMAIN clients = {}

\* send with a fault: an error is not buffered over one that is buffered
sendKeepFirst(payload) ==
  IF buffers(payload)
  THEN /\ bufferedError' = IF bufferedError = NoPayload THEN payload ELSE bufferedError
       /\ UNCHANGED inbox
  ELSE inbox' = fanOut(JSONstringify(payload)) /\ UNCHANGED bufferedError

\* send(payload)
send(payload) ==
  IF buffers(payload)
  THEN bufferedError' = payload /\ UNCHANGED inbox
  ELSE inbox' = fanOut(JSONstringify(payload)) /\ UNCHANGED bufferedError

Send(type) ==
  /\ nSends < MaxSends
  /\ nSends' = nSends + 1
  /\ lastSend' = [type |-> type, seq |-> nSends + 1]
  /\ send([type |-> type, seq |-> nSends + 1])
  /\ UNCHANGED <<clients, nConn, gotBuffered, chan>>

\* the peer or the server starts the closing handshake of a socket
ClientClosing(s) ==
  /\ s \in DOMAIN clients
  /\ clients[s] = OPEN
  /\ clients' = [clients EXCEPT ![s] = CLOSING]
  /\ UNCHANGED <<inbox, bufferedError, nConn, nSends, gotBuffered, lastSend, chan>>

\* the socket's 'close' event: the ws server deletes it from wss.clients
ClientClosed(s) ==
  /\ s \in DOMAIN clients
  /\ clients' = [t \in DOMAIN clients \ {s} |-> clients[t]]
  /\ UNCHANGED <<inbox, bufferedError, nConn, nSends, gotBuffered, lastSend, chan>>

PayloadTypes == {"update", "full-reload", "prune", "error"}

graphAll == <<mods, urlToModuleMap, idToModuleMap, fileToModulesMap, procs, returned,
              last, nUpdates, env>>

\* WsSpec: the HMR channel alone.
WsNext ==
  \/ Connection /\ UNCHANGED graphAll
  \/ (\E type \in PayloadTypes : Send(type)) /\ UNCHANGED graphAll
  \/ (\E s \in DOMAIN clients : ClientClosing(s)) /\ UNCHANGED graphAll
  \/ (\E s \in DOMAIN clients : ClientClosed(s)) /\ UNCHANGED graphAll

WsSpec == Init /\ [][WsNext]_vars

\* ------------------------------------------------------------- listeners
HMR_HEADER == "vite-hmr"

\* req.headers['sec-websocket-protocol'] of an upgrade request; "" is a request
\* without the header
Protocols == {HMR_HEADER, "other", ""}

\* Whether an upgrade request reaches wss.handleUpgrade.  On a shared listener the
\* 'upgrade' handler of createWebSocketServer tests the header.  On a dedicated
\* listener (port, or the inline https server given as options.server) the ws server
\* listens for 'upgrade' itself and createWebSocketServer has no test.
claimsUpgrade(protocol) ==
  IF chan.mode = "shared" THEN protocol = HMR_HEADER ELSE TRUE

\* an upgrade request arrives at the listener the channel is mounted on
Upgrade(protocol) ==
  /\ chan.wss = "listening"
  /\ IF claimsUpgrade(protocol)
     THEN /\ handleUpgrade
          /\ chan' = [chan EXCEPT !.upgrade = [protocol |-> protocol, claimed |-> TRUE,
                                               socket |-> nConn + 1, seen |-> TRUE]]
     ELSE /\ chan' = [chan EXCEPT !.upgrade = [protocol |-> protocol, claimed |-> FALSE,
                                               socket |-> 0, seen |-> TRUE]]
          /\ UNCHANGED <<clients, inbox, bufferedError, nConn, gotBuffered>>
  /\ UNCHANGED <<nSends, lastSend>>

\* resolve() or reject(err) of the promise of close(): the first call settles it
settle(c, outcome, reason) ==
  [c EXCEPT !.promise = IF c.promise = "pending" THEN outcome ELSE @,
            !.reason = IF c.promise = "pending" THEN reason ELSE @,
            !.settled = @ + 1]

\* close() with a fault: the buffered error is dropped
CloseDropBuffer ==
  /\ chan.promise = "none"
  /\ clients' = [s \in DOMAIN clients |-> CLOSING]
  /\ chan' = [chan EXCEPT !.promise = "pending", !.wss = "closing",
                          !.terminated = DOMAIN clients]
  /\ bufferedError' = NoPayload
  /\ UNCHANGED <<inbox, nConn, nSends, gotBuffered, lastSend>>

\* close(), up to the call of wss.close: every client is terminated, which leaves
\* its readyState at CLOSING until its 'close' event
Close ==
  /\ chan.promise = "none"
  /\ clients' = [s \in DOMAIN clients |-> CLOSING]
  /\ chan' = [chan EXCEPT !.promise = "pending", !.wss = "closing",
                          !.terminated = DOMAIN clients]
  /\ UNCHANGED <<inbox, bufferedError, nConn, nSends, gotBuffered, lastSend>>

\* The callback of wss.close with a fault: the promise is resolved without waiting
\* for the https server
onWssClosedResolveEarly(err) ==
  IF err
  THEN settle([chan EXCEPT !.wss = "failed"], "rejected", "wss")
  ELSE IF chan.httpsServer # "undefined"
       THEN settle([chan EXCEPT !.wss = "closed", !.httpsServer = "closing"],
                   "resolved", "")
       ELSE settle([chan EXCEPT !.wss = "closed"], "resolved", "")

\* the callback given to wss.close
onWssClosed(err) ==
  IF err
  THEN settle([chan EXCEPT !.wss = "failed"], "rejected", "wss")
  ELSE IF chan.httpsServer # "undefined"
       THEN [chan EXCEPT !.wss = "closed", !.httpsServer = "closing"]
       ELSE settle([chan EXCEPT !.wss = "closed"], "resolved", "")

WssClosed(err) ==
  /\ chan.wss = "closing"
  /\ chan' = onWssClosed(err)
  /\ UNCHANGED <<clients, inbox, bufferedError, nConn, nSends, gotBuffered, lastSend>>

\* the callback given to httpsServer.close
onHttpsClosed(err) ==
  IF err
  THEN settle([chan EXCEPT !.httpsServer = "failed"], "rejected", "https")
  ELSE settle([chan EXCEPT !.httpsServer = "closed"], "resolved", "")

HttpsClosed(err) ==
  /\ chan.httpsServer = "closing"
  /\ chan' = onHttpsClosed(err)
  /\ UNCHANGED <<clients, inbox, bufferedError, nConn, nSends, gotBuffered, lastSend>>

\* the fan-out of send when client.send fails for the open client bad.  The source
\* has no try/catch around client.send and gives it no callback: a failure that is
\* thrown ends the forEach over wss.clients (insertion order: by handle) and reaches
\* the caller of send; a failure that is not thrown loses the string for bad alone.
fanOutFailing(stringified, bad, thrown) ==
  [s \in DOMAIN inbox |->
     IF s \in DOMAIN clients /\ isOpen(clients[s]) /\ s # bad /\ (thrown => s < bad)
     THEN Append(inbox[s], stringified)
     ELSE inbox[s]]

SendFailing(type, bad, thrown) ==
  /\ nSends < MaxSends
  /\ bad \in DOMAIN clients
  /\ isOpen(clients[bad])
  /\ nSends' = nSends + 1
  /\ lastSend' = [type |-> type, seq |-> nSends + 1]
  /\ inbox' = fanOutFailing(JSONstringify([type |-> type, seq |-> nSends + 1]), bad, thrown)
  /\ last' = [op |-> "send", failed |-> bad, raised |-> thrown]
  /\ UNCHANGED <<clients, nConn, gotBuffered, chan, bufferedError>>
  /\ UNCHANGED <<mods, urlToModuleMap, idToModuleMap, fileToModulesMap, procs, returned,
                 nUpdates, env>>

\* BufSpec: error payloads alone, among connections that come and go.
BufNext ==
  \/ Connection /\ UNCHANGED graphAll
  \/ (\E type \in {"error"} : Send(type)) /\ UNCHANGED graphAll
  \/ (\E s \in DOMAIN clients : ClientClosing(s)) /\ UNCHANGED graphAll
  \/ (\E s \in DOMAIN clients : ClientClosed(s)) /\ UNCHANGED graphAll

BufSpec == Init /\ [][BufNext]_vars

\* FailSpec: sends of which one client.send may fail.
FailNext ==
  \/ Connection /\ UNCHANGED graphAll
  \/ (\E type \in {"update", "error"} : Send(type)) /\ UNCHANGED graphAll
  \/ (\E s \in DOMAIN clients : ClientClosing(s)) /\ UNCHANGED graphAll
  \/ (\E s \in DOMAIN clients : ClientClosed(s)) /\ UNCHANGED graphAll
  \/ \E type \in {"update"}, bad \in DOMAIN clients, thrown \in BOOLEAN :
       SendFailing(type, bad, thrown)

FailSpec == Init /\ [][FailNext]_vars

\* e.code of the 'error' events of the ws server
ErrorCodes == {"EADDRINUSE", "ECONNRESET"}

\* The 'error' handler with a fault: the code is not looked at
onErrorLogAll(code) == [chan EXCEPT !.logged = Append(@, code)]

\* wss.on('error', (e) => ...): config.logger.error unless the code is EADDRINUSE
onError(code) ==
  IF code # "EADDRINUSE" THEN [chan EXCEPT !.logged = Append(@, code)] ELSE chan

\* the ws server emits 'error'
OnError(code) ==
  /\ chan.nErrors < MaxErrors
  /\ chan' = [onError(code) EXCEPT !.nErrors = @ + 1,
                                   !.lastError = [code |-> code, atSend |-> nSends]]
  /\ UNCHANGED <<clients, inbox, bufferedError, nConn, nSends, gotBuffered, lastSend>>

\* ErrSpec: 'error' events of the ws server among connections and sends.
ErrNext ==
  \/ (\E protocol \in {HMR_HEADER} : Upgrade(protocol)) /\ UNCHANGED graphAll
  \/ (\E type \in {"update", "error"} : Send(type)) /\ UNCHANGED graphAll
  \/ (\E s \in DOMAIN clients : ClientClosed(s)) /\ UNCHANGED graphAll
  \/ (\E code \in ErrorCodes : OnError(code)) /\ UNCHANGED graphAll

ErrSpec == (\E mode \in Modes : Constructed(mode)) /\ [][ErrNext]_vars

\* ChanSpec: the channel on each of its listeners, with upgrade requests and close().
\* The ws server and the https server call the callback of close once.
ChanInit == \E mode \in Modes : Constructed(mode)

ChanNext ==
  \/ (\E protocol \in Protocols : Upgrade(protocol)) /\ UNCHANGED graphAll
  \/ (\E type \in {"update", "error"} : Send(type)) /\ UNCHANGED graphAll
  \/ (\E s \in DOMAIN clients : ClientClosing(s)) /\ UNCHANGED graphAll
  \/ (\E s \in DOMAIN clients : ClientClosed(s)) /\ UNCHANGED graphAll
  \/ Close /\ UNCHANGED graphAll
  \/ (\E err \in BOOLEAN : WssClosed(err)) /\ UNCHANGED graphAll
  \/ (\E err \in BOOLEAN : HttpsClosed(err)) /\ UNCHANGED graphAll

ChanSpec ==
  /\ ChanInit
  /\ [][ChanNext]_vars
  /\ WF_vars((\E err \in BOOLEAN : WssClosed(err)) /\ UNCHANGED graphAll)
  /\ WF_vars((\E err \in BOOLEAN : HttpsClosed(err)) /\ UNCHANGED graphAll)

\* ------------------------------------------------------------- loadEnv
\* A file name is the sequence of its dot-separated parts: `.env.${mode}.local` is
\* <<".env", mode, "local">>.
envFiles(mode) ==
  <<<<".env", mode, "local">>, <<".env", mode>>, <<".env", "local">>, <<".env">>>>

\* key.startsWith('VITE_'), prefixes being the default
startsWithPrefix(key) == key \in {"VITE_A", "VITE_USER_NODE_ENV"}

\* the keys of process.env with the prefix
inlineEnv(processEnv) ==
  [key \in {k \in DOMAIN processEnv : startsWithPrefix(k)} |-> processEnv[key]]

\* the loop over envFiles: st is [out, processEnv, looked]
RECURSIVE readEnvFiles(_, _, _)
readEnvFiles(files, disk, st) ==
  IF files = <<>> THEN st
  ELSE LET file == Head(files)
           parsed == IF file \in DOMAIN disk THEN disk[file] ELSE <<>>
           exposed == {k \in DOMAIN parsed : startsWithPrefix(k)}
       IN  readEnvFiles(Tail(files), disk,
             [out |-> [k \in DOMAIN st.out \cup exposed |->
                         IF k \in DOMAIN st.out THEN st.out[k] ELSE parsed[k]],
              processEnv |->
                IF "NODE_ENV" \in DOMAIN parsed
                THEN MapSet(st.processEnv, "VITE_USER_NODE_ENV", parsed["NODE_ENV"])
                ELSE st.processEnv,
              looked |-> Append(st.looked, file)])

\* loadEnv with a fault: the mode name is not tested
loadEnvAnyMode(mode, e) ==
  LET st == readEnvFiles(envFiles(mode), e.disk,
              [out |-> inlineEnv(e.processEnv), processEnv |-> e.processEnv,
               looked |-> <<>>])
  IN  [e EXCEPT !.raised = FALSE, !.out = st.out, !.processEnv = st.processEnv,
                !.looked = st.looked]

\* loadEnv(mode, envDir): the value is env after the call
loadEnv(mode, e) ==
  IF mode = "local"
  THEN [e EXCEPT !.raised = TRUE, !.out = <<>>, !.looked = <<>>]
  ELSE LET st == readEnvFiles(envFiles(mode), e.disk,
                   [out |-> inlineEnv(e.processEnv), processEnv |-> e.processEnv,
                    looked |-> <<>>])
       IN  [e EXCEPT !.raised = FALSE, !.out = st.out, !.processEnv = st.processEnv,
                     !.looked = st.looked]

LoadEnv(mode) ==
  /\ env.nLoads < MaxLoads
  /\ env' = [loadEnv(mode, env) EXCEPT !.nLoads = @ + 1, !.mode = mode]

\* the user writes an env file
EnvContents == {("VITE_A" :> "file"), ("NODE_ENV" :> "test")}

WriteEnvFile(file, content) ==
  /\ file \notin DOMAIN env.disk
  /\ env' = [env EXCEPT !.disk = MapSet(@, file, content)]

\* a variable is given inline
SetProcessEnv(key, value) ==
  /\ key \notin DOMAIN env.processEnv
  /\ env' = [env EXCEPT !.processEnv = MapSet(@, key, value)]

EnvModes == {"local", "development", "Local"}

EnvAll == <<mods, urlToModuleMap, idToModuleMap, fileToModulesMap, procs, returned,
            last, nUpdates, clients, inbox, bufferedError, nConn, nSends, gotBuffered,
            lastSend, chan>>

\* EnvSpec: loadEnv among env files and inline variables.
EnvNext ==
  \/ (\E mode \in EnvModes : LoadEnv(mode)) /\ UNCHANGED EnvAll
  \/ (\E file \in {<<".env">>, <<".env", "local">>, <<".env", "development">>,
                     <<".env", "local", "local">>},
         content \in EnvContents : WriteEnvFile(file, content)) /\ UNCHANGED EnvAll
  \/ (\E key \in {"VITE_A"} : SetProcessEnv(key, "inline")) /\ UNCHANGED EnvAll

EnvSpec == Init /\ [][EnvNext]_vars

\* ------------------------------------------------------------- inputs
UrlA == Str("", "a", <<".js">>, "", FALSE, FALSE, "")
UrlANoExt == Str("", "a", <<>>, "", FALSE, FALSE, "")
UrlAStamped == Str("", "a", <<".js">>, "", TRUE, TRUE, "")
UrlAQuery == Str("", "a", <<".js">>, "x", FALSE, FALSE, "")
UrlAFs == Str("/@fs//root", "a", <<".js">>, "", FALSE, FALSE, "")
UrlB == Str("", "b", <<>>, "", FALSE, FALSE, "#h")
UrlMissing == Str("", "m", <<>>, "", TRUE, FALSE, "")
FileA == Str("/root", "a", <<".js">>, "", FALSE, FALSE, "")
FileADot == Str("/root/.", "a", <<".js">>, "", FALSE, FALSE, "")

UrlBCss == Str("", "b", <<".css">>, "", FALSE, FALSE, "#h")
UrlSp == Str("", "c d", <<>>, "x", FALSE, FALSE, "")
UrlSpCss == Str("", "c d", <<".css">>, "x", FALSE, FALSE, "")
UrlGone == Str("", "g", <<".x">>, "q", TRUE, TRUE, "#h")
RawUrls == {UrlA, UrlANoExt, UrlAStamped, UrlAQuery, UrlAFs, UrlB, UrlMissing, UrlGone}
Files == {FileA, FileADot}
SsrFlags == {FALSE}

\* The argument Sets of updateModuleInfo, in insertion order: no entry twice.
ItemSeqs(items, max) ==
  UNION {{q \in [1..k -> items] : \A i, j \in 1..k : i # j => q[i] # q[j]} : k \in 0..max}

NodeItems == {NodeItem(n) : n \in Nodes}
UrlItems(urls) == {UrlItem(u) : u \in urls}

\* The slot a new call takes: the lowest free one (0 when all are busy).
FreeSlot ==
  IF \E p \in Procs : procs[p].pc = "idle"
  THEN First({p \in Procs : procs[p].pc = "idle"})
  ELSE 0

\* Node entries only, by handle: for entries that need no resolution the order of
\* the argument Set does not show in the result.
RECURSIVE SeqOfSet(_)
SeqOfSet(S) == IF S = {} THEN <<>> ELSE <<NodeItem(First(S))>> \o SeqOfSet(S \ {First(S)})

NodeSeqs(max) == {SeqOfSet(S) : S \in {T \in SUBSET Nodes : Cardinality(T) <= max}}

\* ------------------------------------------------------------- specifications
\* Spec: module identity and the three indices, with calls in flight together.
Next ==
  \/ (\E p \in Procs, u \in RawUrls, ssr \in SsrFlags : EnsureStart(p, u, ssr))
       /\ UNCHANGED <<nUpdates, wsVars>>
  \/ (\E p \in Procs : EnsureReturn(p)) /\ UNCHANGED <<nUpdates, wsVars>>
  \/ (\E f \in Files : CreateFileOnlyEntry(f)) /\ UNCHANGED <<nUpdates, wsVars>>

Spec == Init /\ [][Next]_vars

\* CascadeSpec: the import graph, the caches and their invalidation. Requests
\* for new modules arrive in one order (the k-th node is the k-th url).
CascadeUrls == <<UrlA, UrlAQuery, UrlB, UrlMissing, UrlAFs>>

CascadeNext ==
  \/ (\E i \in 1..Len(CascadeUrls) :
        i <= Len(mods) + 1 /\ EnsureStart(1, CascadeUrls[i], FALSE))
       /\ UNCHANGED <<nUpdates, wsVars>>
  \/ EnsureReturn(1) /\ UNCHANGED <<nUpdates, wsVars>>
  \/ (\E mod \in Nodes, imported \in NodeSeqs(MaxImports) :
        UpdateStart(1, mod, imported, <<>>, FALSE, FALSE))
       /\ UNCHANGED <<nUpdates, wsVars>>
  \/ (\E n \in Nodes : TransformAndLoad(n)) /\ UNCHANGED <<nUpdates, wsVars>>
  \/ (\E n \in Nodes : InvalidateModule(n, {})) /\ UNCHANGED <<nUpdates, wsVars>>
  \/ (\E f \in {FileA} : OnFileChange(f)) /\ UNCHANGED <<nUpdates, wsVars>>
  \/ InvalidateAll /\ UNCHANGED <<nUpdates, wsVars>>

CascadeSpec == Init /\ [][CascadeNext]_vars

\* UpdateSpec: updateModuleInfo calls, overlapping, with urls to resolve; a run
\* makes at most MaxUpdates calls.
UpdateNext ==
  \/ (\E u \in {UrlMissing} : EnsureStart(1, u, FALSE)) /\ UNCHANGED <<nUpdates, wsVars>>
  \/ EnsureReturn(1) /\ UNCHANGED <<nUpdates, wsVars>>
  \/ (\E p \in Procs : UpdateResolve(p)) /\ UNCHANGED <<nUpdates, wsVars>>
  \/ (\E p \in Procs : UpdateResume(p)) /\ UNCHANGED <<nUpdates, wsVars>>
  \/ /\ nUpdates < MaxUpdates
     /\ \E mod \in Nodes,
           imported \in ItemSeqs(NodeItems \cup UrlItems({UrlANoExt}), MaxImports),
           accepted \in ItemSeqs(UrlItems({UrlB}), 1),
           isSelfAccepting \in BOOLEAN :
           UpdateStart(FreeSlot, mod, imported, accepted, isSelfAccepting, FALSE)
     /\ nUpdates' = nUpdates + 1
     /\ UNCHANGED wsVars

UpdateSpec == Init /\ [][UpdateNext]_vars

\* CanonSpec: requests for one module with and without its extension.
CanonUrls == {UrlB, UrlBCss, UrlSp, UrlSpCss}

CanonNext ==
  \/ (\E p \in Procs, u \in CanonUrls : EnsureStart(p, u, FALSE))
       /\ UNCHANGED <<nUpdates, wsVars>>
  \/ (\E p \in Procs : EnsureReturn(p)) /\ UNCHANGED <<nUpdates, wsVars>>
  \/ (\E u \in CanonUrls : GetModuleByUrl(u, FALSE)) /\ UNCHANGED <<nUpdates, wsVars>>

CanonSpec == Init /\ [][CanonNext]_vars

\* AllSpec: nodes made by both creation paths, the caches of those that are
\* served, and invalidateAll.
AllNext ==
  \/ (\E u \in {UrlA, UrlAFs} : EnsureStart(1, u, FALSE)) /\ UNCHANGED <<nUpdates, wsVars>>
  \/ EnsureReturn(1) /\ UNCHANGED <<nUpdates, wsVars>>
  \/ (\E f \in {FileA} : CreateFileOnlyEntry(f)) /\ UNCHANGED <<nUpdates, wsVars>>
  \/ (\E n \in Nodes : mods[n].id # NullStr /\ TransformAndLoad(n))
       /\ UNCHANGED <<nUpdates, wsVars>>
  \/ (\E n \in Nodes : InvalidateModule(n, {})) /\ UNCHANGED <<nUpdates, wsVars>>
  \/ InvalidateAll /\ UNCHANGED <<nUpdates, wsVars>>

AllSpec == Init /\ [][AllNext]_vars

\* OverlapSpec: updateModuleInfo calls on one node (the first), overlapping, with
\* urls to resolve; a run makes at most MaxUpdates calls.
OverlapNext ==
  \/ (\E u \in {UrlMissing} : EnsureStart(1, u, FALSE)) /\ UNCHANGED <<nUpdates, wsVars>>
  \/ EnsureReturn(1) /\ UNCHANGED <<nUpdates, wsVars>>
  \/ (\E p \in Procs : UpdateResolve(p)) /\ UNCHANGED <<nUpdates, wsVars>>
  \/ (\E p \in Procs : UpdateResume(p)) /\ UNCHANGED <<nUpdates, wsVars>>
  \/ /\ nUpdates < MaxUpdates
     /\ \E imported \in ItemSeqs(NodeItems \cup UrlItems({UrlANoExt, UrlB}), MaxImports) :
           UpdateStart(FreeSlot, 1, imported, <<>>, FALSE, FALSE)
     /\ nUpdates' = nUpdates + 1
     /\ UNCHANGED wsVars

OverlapSpec == Init /\ [][OverlapNext]_vars

\* RejectSpec: a resolver that may reject, under ensureEntryFromUrl and under the
\* calls of updateModuleInfo on the first node.
RejectNext ==
  \/ (\E u \in {UrlMissing} : EnsureStart(1, u, FALSE)) /\ UNCHANGED <<nUpdates, wsVars>>
  \/ EnsureReturn(1) /\ UNCHANGED <<nUpdates, wsVars>>
  \/ EnsureReject(1) /\ UNCHANGED <<nUpdates, wsVars>>
  \/ (\E p \in Procs : UpdateResolve(p)) /\ UNCHANGED <<nUpdates, wsVars>>
  \/ (\E p \in Procs : UpdateResume(p)) /\ UNCHANGED <<nUpdates, wsVars>>
  \/ (\E p \in Procs : UpdateReject(p)) /\ UNCHANGED <<nUpdates, wsVars>>
  \/ /\ nUpdates < MaxUpdates
     /\ \E imported \in ItemSeqs(NodeItems \cup UrlItems({UrlANoExt, UrlB}), MaxImports) :
           UpdateStart(FreeSlot, 1, imported, <<>>, FALSE, FALSE)
     /\ nUpdates' = nUpdates + 1
     /\ UNCHANGED wsVars

RejectSpec == Init /\ [][RejectNext]_vars

\* LookupSpec: the three lookups among registrations by url and by file.
LookupUrls == {UrlA, UrlAStamped, UrlAFs, UrlB}

LookupNext ==
  \/ (\E p \in Procs, u \in {UrlA, UrlAFs, UrlB} : EnsureStart(p, u, FALSE))
       /\ UNCHANGED <<nUpdates, wsVars>>
  \/ (\E p \in Procs : EnsureReturn(p)) /\ UNCHANGED <<nUpdates, wsVars>>
  \/ (\E f \in {FileA} : CreateFileOnlyEntry(f)) /\ UNCHANGED <<nUpdates, wsVars>>
  \/ (\E u \in LookupUrls : GetModuleByUrl(u, FALSE)) /\ UNCHANGED <<nUpdates, wsVars>>
  \/ (\E id \in {FileA, UrlAQuery} : GetModuleById(id)) /\ UNCHANGED <<nUpdates, wsVars>>
  \/ (\E f \in Files : GetModulesByFile(f)) /\ UNCHANGED <<nUpdates, wsVars>>

LookupSpec == Init /\ [][LookupNext]_vars

\* SweepSpec: invalidations while an updateModuleInfo call on the first node is
\* suspended on the resolver.
SweepNext ==
  \/ (\E u \in {UrlA, UrlAQuery} : EnsureStart(1, u, FALSE))
       /\ UNCHANGED <<nUpdates, wsVars>>
  \/ EnsureReturn(1) /\ UNCHANGED <<nUpdates, wsVars>>
  \/ (\E p \in Procs : UpdateResolve(p)) /\ UNCHANGED <<nUpdates, wsVars>>
  \/ (\E p \in Procs : UpdateResume(p)) /\ UNCHANGED <<nUpdates, wsVars>>
  \/ /\ nUpdates < MaxUpdates
     /\ \E imported \in ItemSeqs(NodeItems \cup UrlItems({UrlB}), MaxImports) :
           UpdateStart(FreeSlot, 1, imported, <<>>, FALSE, FALSE)
     /\ nUpdates' = nUpdates + 1
     /\ UNCHANGED wsVars
  \/ (\E n \in Nodes : TransformAndLoad(n)) /\ UNCHANGED <<nUpdates, wsVars>>
  \/ (\E n \in Nodes : InvalidateModule(n, {})) /\ UNCHANGED <<nUpdates, wsVars>>
  \/ (\E f \in {FileA} : OnFileChange(f)) /\ UNCHANGED <<nUpdates, wsVars>>
  \/ InvalidateAll /\ UNCHANGED <<nUpdates, wsVars>>

SweepSpec == Init /\ [][SweepNext]_vars

\* SeenSpec: invalidations under a seen set that earlier visits of the same sweep
\* have filled (the set of the nodes that reach some node through importer edges,
\* their ssrModule cleared) or that is still empty.
RECURSIVE ImportersOf(_)
ImportersOf(S) ==
  LET T == S \cup UNION {mods[n].importers : n \in S}
  IN  IF T = S THEN S ELSE ImportersOf(T)

SeenSets == {{}} \cup {ImportersOf({m}) : m \in Nodes}

SeenNext ==
  \/ (\E u \in {UrlA, UrlAQuery} : EnsureStart(1, u, FALSE))
       /\ UNCHANGED <<nUpdates, wsVars>>
  \/ EnsureReturn(1) /\ UNCHANGED <<nUpdates, wsVars>>
  \/ (\E mod \in Nodes, imported \in NodeSeqs(MaxImports) :
        UpdateStart(1, mod, imported, <<>>, FALSE, FALSE))
       /\ UNCHANGED <<nUpdates, wsVars>>
  \/ (\E n \in Nodes : TransformAndLoad(n)) /\ UNCHANGED <<nUpdates, wsVars>>
  \/ (\E n \in Nodes, seen \in SeenSets :
        (\A k \in seen : ~mods[k].ssrModule) /\ InvalidateModule(n, seen))
       /\ UNCHANGED <<nUpdates, wsVars>>
  \/ (\E f \in {FileA} : OnFileChange(f)) /\ UNCHANGED <<nUpdates, wsVars>>
  \/ InvalidateAll /\ UNCHANGED <<nUpdates, wsVars>>

SeenSpec == Init /\ [][SeenNext]_vars

\* StampSpec: one module asked for with and without the timestamp query and the
\* import marker, by url and by id.
UrlATimed == Str("", "a", <<".js">>, "", TRUE, FALSE, "")
UrlAImport == Str("", "a", <<".js">>, "", FALSE, TRUE, "")
UrlBStamped == Str("", "b", <<>>, "", TRUE, TRUE, "#h")
StampUrls == {UrlA, UrlATimed, UrlAImport, UrlAStamped, UrlB, UrlBStamped}
StampIds == {FileA, [FileA EXCEPT !.t = TRUE]}

StampNext ==
  \/ (\E p \in Procs, u \in StampUrls : EnsureStart(p, u, FALSE))
       /\ UNCHANGED <<nUpdates, wsVars>>
  \/ (\E p \in Procs : EnsureReturn(p)) /\ UNCHANGED <<nUpdates, wsVars>>
  \/ (\E u \in StampUrls : GetModuleByUrl(u, FALSE)) /\ UNCHANGED <<nUpdates, wsVars>>
  \/ (\E id \in StampIds : GetModuleById(id)) /\ UNCHANGED <<nUpdates, wsVars>>

StampSpec == Init /\ [][StampNext]_vars

\* MovedSpec: entries asked for while the resolver's answers change.
MovedUrls == {UrlA, UrlANoExt, UrlB, UrlBCss}

MovedNext ==
  \/ (\E p \in Procs, u \in MovedUrls : EnsureStart(p, u, FALSE))
       /\ UNCHANGED <<nUpdates, wsVars>>
  \/ (\E p \in {q \in Procs : procs[q].pc = "resolve"} :
        \E resolved \in Answers(procs[p].url, procs[p].ssr) :
        EnsureResolved(p, resolved))
       /\ UNCHANGED <<nUpdates, wsVars>>

MovedSpec == Init /\ [][MovedNext]_vars

\* StuckSpec: the resolver never answers the call of slot 1; the calls of slot 2
\* are answered, and the synchronous operations run.
StuckNext ==
  \/ (\E u \in {UrlMissing} : EnsureStart(1, u, FALSE)) /\ UNCHANGED <<nUpdates, wsVars>>
  \/ (\E u \in {UrlA, UrlAQuery, UrlB} : EnsureStart(2, u, FALSE))
       /\ UNCHANGED <<nUpdates, wsVars>>
  \/ EnsureReturn(2) /\ UNCHANGED <<nUpdates, wsVars>>
  \/ (\E u \in {UrlA, UrlMissing} : GetModuleByUrl(u, FALSE))
       /\ UNCHANGED <<nUpdates, wsVars>>
  \/ (\E n \in Nodes : TransformAndLoad(n)) /\ UNCHANGED <<nUpdates, wsVars>>
  \/ (\E n \in Nodes : InvalidateModule(n, {})) /\ UNCHANGED <<nUpdates, wsVars>>
  \/ (\E f \in {FileA} : OnFileChange(f)) /\ UNCHANGED <<nUpdates, wsVars>>

StuckSpec ==
  /\ Init
  /\ [][StuckNext]_vars
  /\ WF_vars(EnsureReturn(2) /\ UNCHANGED <<nUpdates, wsVars>>)

\* ------------------------------------------------------------- claims
\* C1: edge symmetry in every reachable state: a is in b.importedModules exactly
\* when b is in a.importers, also while updateModuleInfo calls are suspended and
\* after overlapping calls.
EdgeSymmetry ==
  \A a, b \in Nodes : (a \in mods[b].importedModules) <=> (b \in mods[a].importers)

\* C1, the weaker reading: edge symmetry whenever no call is in flight.
EdgeSymmetryAtRest ==
  (\A p \in Procs : procs[p].pc = "idle") => EdgeSymmetry

\* C2: ensureEntryFromUrl calls in flight together for one url not yet registered
\* all return the same node, the one the url index holds, and it is the only node
\* ensureEntryFromUrl made for that url.
EnsuredBy(url) == {n \in Nodes : mods[n].id # NullStr /\ mods[n].url = url}

ConcurrentEnsureOneNode ==
  \A url \in DOMAIN returned :
    /\ returned[url] = {MapGet(urlToModuleMap, url)}
    /\ EnsuredBy(url) = returned[url]

\* C2's case: a call that started before its url was registered returns the node
\* another call registered while it was suspended.
ConcurrentEnsureRaced ==
  last.op = "ensure" /\ last.fresh /\ ~last.created

\* C3: no two nodes have the same url.
OneNodePerUrl ==
  \A a, b \in Nodes : mods[a].url = mods[b].url => a = b

\* The nodes that reach a node of S through zero or more importer edges.
RECURSIVE ImporterClosure(_)
ImporterClosure(S) ==
  LET T == S \cup UNION {mods[n].importers : n \in S}
  IN  IF T = S THEN S ELSE ImporterClosure(T)

Range(q) == {q[i] : i \in 1..Len(q)}
NoDuplicates(q) == \A i, j \in 1..Len(q) : i # j => q[i] # q[j]

\* C4: invalidateModule(node) terminates on every import graph, cycles and
\* self-imports included, and its SSR cascade processes every node that reaches
\* node through importer edges exactly once.
CascadeVisitsOnce ==
  last.op = "invalidate" =>
    /\ NoDuplicates(last.visits)
    /\ Range(last.visits) = ImporterClosure(last.targets)

\* C4's case: a cascade over a cycle through three nodes.
CascadeOnCycle ==
  /\ last.op = "invalidate"
  /\ Len(last.visits) = 3
  /\ \E a, b, c \in Nodes :
       /\ a # b /\ b # c /\ a # c
       /\ a \in mods[b].importers /\ b \in mods[c].importers /\ c \in mods[a].importers

\* C5: after invalidateModule(node) with a fresh seen set, node's info,
\* transformResult and ssrTransformResult are cleared and ssrModule is null on node
\* and on every transitive importer.
InvalidateClears ==
  last.op = "invalidate" =>
    /\ \A n \in last.targets :
         ~mods[n].info /\ ~mods[n].transformResult /\ ~mods[n].ssrTransformResult
    /\ \A n \in ImporterClosure(last.targets) : ~mods[n].ssrModule

\* C5's case: the importer of an importer lost its ssrModule and kept its results.
InvalidateReachedFar ==
  /\ last.op = "invalidate"
  /\ \E n \in last.targets, a, b \in Nodes :
       /\ a # n /\ b # n /\ a # b
       /\ a \in mods[n].importers /\ b \in mods[a].importers
       /\ b \notin mods[n].importers
       /\ mods[b].ssrTransformResult /\ ~mods[b].ssrModule

\* C6: invalidateModule(D) and onFileChange(file of D) leave transformResult and
\* ssrTransformResult of every node they do not invalidate directly as they were,
\* importers reached by the cascade included.
ImportersKeepTransform ==
  [][last'.op \in {"invalidate", "fileChange"} =>
       \A n \in Nodes \ last'.targets :
         /\ mods'[n].transformResult = mods[n].transformResult
         /\ mods'[n].ssrTransformResult = mods[n].ssrTransformResult
         /\ mods'[n].info = mods[n].info]_vars

\* C6's case: a file change cleared the ssrModule of an importer whose transform
\* results are still there.
ImporterKeptTransform ==
  /\ last.op = "fileChange"
  /\ \E n \in ImporterClosure(last.targets) \ last.targets :
       mods[n].transformResult /\ mods[n].ssrTransformResult /\ ~mods[n].ssrModule

\* C7: updateModuleInfo(X, imported, ...) run without interleaving returns the
\* nodes that were in X's previous imports, are not in the new ones and are left
\* without importers; undefined, not an empty Set, when there is none.
OrphansReturned ==
  [][(last'.op = "update" /\ last'.solo /\ last' # last) =>
       LET X == last'.mod
           prev == IF procs[last'.p].pc = "idle"
                   THEN mods[X].importedModules
                   ELSE procs[last'.p].prev0
           orphans == {d \in prev \ mods'[X].importedModules : mods'[d].importers = {}}
       IN  /\ last'.ret = IF orphans = {} THEN Undefined ELSE SetOf(orphans)
           /\ \A d \in prev \ mods'[X].importedModules : X \notin mods'[d].importers]_vars

\* C7's case: an uninterleaved call that replaced its imports returned an orphan.
OrphanReturned ==
  /\ last.op = "update" /\ last.solo /\ last.ret.isSet
  /\ last.ret.nodes # {}
  /\ mods[last.mod].importedModules # {}

\* C8 as stated: an error sent with no client is buffered; the next connection
\* gets connected and then the error; a second connection gets neither.
BufferedErrorThenNothing ==
  [][/\ (nSends' # nSends /\ lastSend'.type = "error" /\ DOMAIN clients = {})
          => (bufferedError' = lastSend' /\ inbox' = inbox)
     /\ (nConn' # nConn /\ bufferedError # NoPayload)
          => /\ bufferedError' = NoPayload
             /\ inbox'[nConn'] = <<JSONstringify(Connected), JSONstringify(bufferedError)>>
     /\ (nConn' # nConn /\ bufferedError = NoPayload /\ gotBuffered # {})
          => inbox'[nConn'] = <<>>]_vars

\* C8, amended: an error sent with no client is buffered; the next connection
\* gets connected and then the error; a second connection gets connected alone.
BufferedErrorDelivery ==
  [][/\ (nSends' # nSends /\ lastSend'.type = "error" /\ DOMAIN clients = {})
          => (bufferedError' = lastSend' /\ inbox' = inbox)
     /\ (nConn' # nConn /\ bufferedError # NoPayload)
          => /\ bufferedError' = NoPayload
             /\ inbox'[nConn'] = <<JSONstringify(Connected), JSONstringify(bufferedError)>>
     /\ (nConn' # nConn /\ bufferedError = NoPayload /\ gotBuffered # {})
          => /\ bufferedError' = NoPayload
             /\ inbox'[nConn'] = <<JSONstringify(Connected)>>]_vars

\* C8's case: the first connection got the buffered error, the second did not.
BufferedErrorDelivered ==
  /\ nConn = 2
  /\ gotBuffered = {1}
  /\ inbox[1][2].json.type = "error"
  /\ inbox[2] = <<JSONstringify(Connected)>>
  /\ bufferedError = NoPayload

\* C9: an error sent while no connection is open is kept in the buffer.
ErrorKeptWhenNoneOpen ==
  [][(/\ nSends' # nSends
      /\ lastSend'.type = "error"
      /\ \A s \in DOMAIN clients : clients[s] # OPEN)
       => bufferedError' = lastSend']_vars

\* C10: a send that is not buffered gives the serialized payload once to every
\* connection open at the call and to no other.
FanOutToOpen ==
  [][(nSends' # nSends /\ bufferedError' = bufferedError) =>
       \A s \in DOMAIN inbox :
         inbox'[s] = IF s \in DOMAIN clients /\ clients[s] = OPEN
                     THEN Append(inbox[s], JSONstringify(lastSend'))
                     ELSE inbox[s]]_vars

\* C10's case: a send reached the open connection and not the closing one.
FanOutSkippedClosing ==
  /\ nSends > 0
  /\ \E s, t \in DOMAIN clients :
       /\ clients[s] = OPEN /\ clients[t] = CLOSING
       /\ inbox[s][Len(inbox[s])] = JSONstringify(lastSend)
       /\ inbox[t][Len(inbox[t])] # JSONstringify(lastSend)

\* C11: every client receives the connected acknowledgment first, then the
\* buffered error if there was one, then payloads in the order of the send calls:
\* what a client was given is a subsequence of what was submitted, in that order.
SubmissionOrderKept ==
  \A s \in DOMAIN inbox :
    /\ Len(inbox[s]) >= 1
    /\ inbox[s][1] = JSONstringify(Connected)
    /\ \A i \in 2..Len(inbox[s]) : inbox[s][i].json.seq \in 1..nSends
    /\ \A i, j \in 2..Len(inbox[s]) : i < j => inbox[s][i].json.seq < inbox[s][j].json.seq
    /\ s \in gotBuffered => Len(inbox[s]) >= 2 /\ inbox[s][2].json.type = "error"

\* C11's case: a client got connected, the buffered error and two later payloads.
ReceivedInOrder ==
  \E s \in DOMAIN inbox :
    /\ s \in gotBuffered
    /\ Len(inbox[s]) = 4
    /\ inbox[s][4].json.seq = nSends

\* Some client of wss.clients is open.
SomeOpen == \E s \in DOMAIN clients : clients[s] = OPEN

EnsureIdempotent ==
  [][(last'.op = "ensure" /\ last'.url \in DOMAIN returned) =>
       /\ ~last'.created
       /\ returned[last'.url] = {last'.ret}
       /\ returned' = returned
       /\ graphVars' = graphVars]_vars

\* C13's case: a second call for a registered url returned the node, whose caches
\* were filled in between and are still there.
EnsuredAgain ==
  /\ last.op = "ensure" /\ ~last.fresh /\ ~last.created
  /\ mods[last.ret].transformResult /\ mods[last.ret].ssrModule

\* The canonical url resolveUrl gives a raw url.
Canon(rawUrl) ==
  resolveUrlFinish(resolveUrlClean(rawUrl), resolveId(resolveUrlClean(rawUrl), FALSE)).url

\* The requests (short, long) for one module without and with its extension that
\* the resolver maps to one identifier ending in that extension.
ExtPairs ==
  {pair \in CanonUrls \X CanonUrls :
     /\ pair[1].exts = <<>>
     /\ resolveId(pair[1], FALSE).found
     /\ pair[2] = [pair[1] EXCEPT !.exts = <<extname(resolveId(pair[1], FALSE).id)>>]
     /\ resolveId(pair[2], FALSE) = resolveId(pair[1], FALSE)}

\* C14: once ensureEntryFromUrl has returned for both forms of a module's url,
\* the two forms have one canonical url, query and hash kept, one node was
\* returned for both, and getModuleByUrl of either form gives that node.
ExtensionFormsConverge ==
  \A pair \in ExtPairs :
    (Canon(pair[1]) \in DOMAIN returned /\ Canon(pair[2]) \in DOMAIN returned) =>
      /\ Canon(pair[1]) = Canon(pair[2])
      /\ Canon(pair[1]).query = pair[1].query /\ Canon(pair[1]).hash = pair[1].hash
      /\ returned[Canon(pair[1])] = returned[Canon(pair[2])]
      /\ getModuleByUrl(pair[1], FALSE) = getModuleByUrl(pair[2], FALSE)

\* C15: the nodes ensureEntryFromUrl made for one file, whatever their query, are
\* all in getModulesByFile(file); onFileChange(file) clears transformResult,
\* ssrTransformResult and ssrModule of every one of them, and changes nothing when
\* the file has no node.
FileFanOut ==
  [][last'.op = "fileChange" =>
       LET onFile == {n \in Nodes : mods[n].file = FileA}
       IN  /\ getModulesByFile(FileA) = onFile
           /\ last'.targets = onFile
           /\ \A n \in onFile :
                /\ ~mods'[n].transformResult
                /\ ~mods'[n].ssrTransformResult
                /\ ~mods'[n].ssrModule
           /\ onFile = {} => graphVars' = graphVars]_vars

\* C15's case: a file change reached two nodes of one file with different queries.
FileChangeReachedBoth ==
  /\ last.op = "fileChange"
  /\ \E a, b \in last.targets :
       /\ mods[a].url.query # mods[b].url.query
       /\ mods[a].file = mods[b].file
  /\ \E n \in Nodes \ last.targets : mods[n].transformResult

\* The fields of a node that are not caches.
Structure(node) ==
  <<node.url, node.id, node.file, node.meta, node.importers, node.importedModules,
    node.acceptedHmrDeps, node.isSelfAccepting>>

\* C16: invalidateModule, invalidateAll and onFileChange leave the three indices,
\* the node set and every field of every node but its caches as they were; a cache
\* is only ever emptied by them.
InvalidationKeepsStructure ==
  [][last'.op \in {"invalidate", "fileChange", "invalidateAll"} =>
       /\ urlToModuleMap' = urlToModuleMap
       /\ idToModuleMap' = idToModuleMap
       /\ fileToModulesMap' = fileToModulesMap
       /\ Len(mods') = Len(mods)
       /\ \A n \in Nodes :
            /\ Structure(mods'[n]) = Structure(mods[n])
            /\ mods'[n].info => mods[n].info
            /\ mods'[n].transformResult => mods[n].transformResult
            /\ mods'[n].ssrTransformResult => mods[n].ssrTransformResult
            /\ mods'[n].ssrModule => mods[n].ssrModule]_vars

\* C16's case: invalidateAll ran over a graph with an import edge and left it.
InvalidatedWithEdges ==
  /\ last.op = "invalidateAll"
  /\ Len(last.visits) >= 2
  /\ \E a, b \in Nodes : a # b /\ a \in mods[b].importedModules /\ b \in mods[a].importers

\* C17: after invalidateAll every node of the graph, file-only entries and nodes
\* that share their id with another node included, has transformResult,
\* ssrTransformResult and ssrModule empty, and the cascade visited no node twice.
InvalidateAllClearsAll ==
  last.op = "invalidateAll" =>
    /\ \A n \in Nodes :
         ~mods[n].transformResult /\ ~mods[n].ssrTransformResult /\ ~mods[n].ssrModule
    /\ NoDuplicates(last.visits)

\* C18: getModuleById(n.id) is n for every node n that ensureEntryFromUrl made.
IdIndexConsistent ==
  \A n \in Nodes : mods[n].id # NullStr => getModuleById(mods[n].id) = n

\* C19: a node is in the bucket of its file in the file index exactly when the
\* url index holds it under its url.
IndicesAgree ==
  \A n \in Nodes :
    (n \in Bucket(fileToModulesMap, mods[n].file)) <=> (MapGet(urlToModuleMap, mods[n].url) = n)

\* C20: when updateModuleInfo calls on one node overlapped and all have returned,
\* the graph is one that the calls run one after the other leave: the nodes that
\* have the node as importer are exactly the node's imports.
OverlapSerializable ==
  (/\ \A p \in Procs : procs[p].pc = "idle"
   /\ last.op = "update"
   /\ ~last.solo) =>
     \A d \in Nodes : (last.mod \in mods[d].importers) <=> (d \in mods[last.mod].importedModules)

\* The raw urls whose cleaned url the resolver does not know.
MissUrls == {u \in RawUrls : ~resolveId(resolveUrlClean(u), FALSE).found}

\* C21: for a url the resolver returns nothing for, resolveUrl gives the cleaned
\* url as url and as resolved id, with no meta, and ensureEntryFromUrl returns a
\* node with that url and id, registered in the three indices.
MissFallsBackToUrl ==
  \A u \in MissUrls :
    LET c == resolveUrlClean(u)
        r == resolveUrlFinish(c, resolveId(c, FALSE))
    IN  /\ r.url = c /\ r.resolvedId = c /\ r.meta = NULL
        /\ c \in DOMAIN returned =>
             \E n \in Nodes :
               /\ returned[c] = {n}
               /\ mods[n].url = c /\ mods[n].id = c /\ mods[n].meta = NULL
               /\ mods[n].file = cleanUrl(c)
               /\ MapGet(urlToModuleMap, c) = n
               /\ MapGet(idToModuleMap, c) = n
               /\ n \in Bucket(fileToModulesMap, cleanUrl(c))

\* C21's case: ensureEntryFromUrl returned for a url with a query, a hash and a
\* timestamp that the resolver does not know.
MissEnsured ==
  /\ last.op = "ensure" /\ last.created
  /\ last.url = resolveUrlClean(UrlGone)
  /\ mods[last.ret].id.query = "q" /\ mods[last.ret].file.query = ""

\* C22: a rejection of the resolver does not reach the caller of
\* ensureEntryFromUrl or updateModuleInfo, and after a rejected updateModuleInfo
\* the node's imports and the back-edges to it agree (no half-applied import set).
ResolverFailureAbsorbed ==
  last.op = "reject" =>
    /\ ~last.raised
    /\ last.call = "update" =>
         \A d \in Nodes :
           (last.mod \in mods[d].importers) <=> (d \in mods[last.mod].importedModules)

\* C22, its second half alone: after a rejected updateModuleInfo the node's
\* imports and the back-edges to it agree.
RejectedUpdateConsistent ==
  (last.op = "reject" /\ last.call = "update") =>
     \A d \in Nodes :
       (last.mod \in mods[d].importers) <=> (d \in mods[last.mod].importedModules)

\* ------------------------------------------------------------- close()
Settled == chan.promise \in {"resolved", "rejected"}

\* the order of close(): clients first, then wss, then the https server; one
\* settlement; resolved after every shutdown succeeded; rejected by the first error
CloseOrdered ==
  /\ chan.settled <= 1
  /\ Settled <=> chan.settled = 1
  /\ chan.wss # "listening" =>
       /\ \A s \in DOMAIN clients : clients[s] # OPEN
       /\ DOMAIN clients \subseteq chan.terminated
  /\ chan.httpsServer \in {"closing", "closed", "failed"} => chan.wss = "closed"
  /\ chan.promise = "resolved" =>
       /\ chan.wss = "closed"
       /\ chan.httpsServer \in {"undefined", "closed"}
  /\ chan.promise = "rejected" =>
       \/ chan.reason = "wss" /\ chan.wss = "failed"
          /\ chan.httpsServer \in {"undefined", "listening"}
       \/ chan.reason = "https" /\ chan.wss = "closed" /\ chan.httpsServer = "failed"

\* C23: close() terminates every client, then closes wss, then the https server it
\* owns; its promise is settled exactly once: resolved only after every nested close
\* succeeded, rejected with the first error a nested close reported.
CloseSettlesOnce == []CloseOrdered /\ ((chan.promise = "pending") ~> Settled)

\* C23 witness: close() resolved on the https listener with clients terminated
CloseResolvedHttps ==
  /\ chan.mode = "https" /\ chan.promise = "resolved" /\ chan.terminated # {}

\* C24: on a channel that owns its listener, the listener is closed once close() has
\* settled, resolved or rejected.  A listener counts as closed once its close was
\* called (an error it reports says that it was not listening): the listener of
\* the "port" channel is closed by wss.close, the one of the "https" channel by
\* httpsServer.close.
OwnedListenerClosed ==
  (Settled /\ chan.mode # "shared") =>
    IF chan.mode = "https"
    THEN chan.httpsServer \in {"closed", "failed"}
    ELSE chan.wss \in {"closed", "failed"}

\* ------------------------------------------------------------- upgrade requests
\* C25: an upgrade request becomes a client only if its sub-protocol header is
\* 'vite-hmr'; a request with another or no sub-protocol is not added to the
\* clients and is sent nothing, on a shared and on a dedicated listener.
OnlyTokenClaimed ==
  (chan.upgrade.seen /\ chan.upgrade.protocol # HMR_HEADER) =>
    /\ ~chan.upgrade.claimed
    /\ chan.upgrade.socket \notin DOMAIN inbox

\* ------------------------------------------------------------- acknowledgment
\* C26: every connection is sent the connected acknowledgment exactly once, and
\* before anything else: before the buffered error and before the payload of every
\* later send.
ConnectedOnceFirst ==
  /\ DOMAIN inbox = 1..nConn
  /\ \A s \in DOMAIN inbox :
       /\ Len(inbox[s]) >= 1
       /\ inbox[s][1].json.type = "connected"
       /\ Cardinality({i \in 1..Len(inbox[s]) : inbox[s][i].json.type = "connected"}) = 1

\* C26 witness: a connection was sent the acknowledgment, the buffered error and
\* the update of a later send
AckThenErrorThenUpdate ==
  \E s \in gotBuffered :
    /\ Len(inbox[s]) = 3
    /\ inbox[s][2].json.type = "error"
    /\ inbox[s][3].json.type = "update"

\* ------------------------------------------------------------- accepted deps
\* C27: once an updateModuleInfo call has returned and none is in flight, the
\* acceptedHmrDeps of every node are among its importedModules.
AcceptedWithinImports ==
  (nUpdates > 0 /\ \A p \in Procs : procs[p].pc = "idle") =>
    \A n \in Nodes : mods[n].acceptedHmrDeps \subseteq mods[n].importedModules

\* ------------------------------------------------------------- file-only entries
\* C28: createFileOnlyEntry is idempotent and deduplicating.  A call for a file
\* whose bucket has a node with that id, or with the /@fs/ url of the file, returns
\* such a node and creates none; a call repeated for the same file returns the node
\* of the call before and leaves the bucket as it was; a bucket never holds two
\* nodes made by createFileOnlyEntry.
FileOnlyIdempotent ==
  [][last'.op = "fileOnly" =>
       LET file == last'.file
           bucket == Bucket(fileToModulesMap, file)
           bucketAfter == Bucket(fileToModulesMap', file)
           found == {m \in bucket : mods[m].id = file \/ mods[m].url = fsUrl(file)}
       IN  /\ found # {} =>
                /\ ~last'.created
                /\ last'.ret \in found
                /\ mods' = mods
                /\ bucketAfter = bucket
           /\ (last.op = "fileOnly" /\ last.file = file) =>
                /\ last'.ret = last.ret
                /\ bucketAfter = bucket
           /\ last'.ret \in bucketAfter
           /\ Cardinality({m \in bucketAfter : mods'[m].id = NullStr}) <= 1]_vars

\* C28 witness: a call returned a node that ensureEntryFromUrl had made, found by
\* its id, in a bucket of two nodes
FileOnlyFoundById ==
  /\ last.op = "fileOnly"
  /\ ~last.created
  /\ mods[last.ret].id = last.file
  /\ mods[last.ret].url # fsUrl(last.file)
  /\ Cardinality(Bucket(fileToModulesMap, last.file)) >= 2

\* ------------------------------------------------------------- lookups never create
\* the url getModuleByUrl looks up for a raw url
CanonicalUrl(rawUrl) ==
  LET url == resolveUrlClean(rawUrl)
  IN  resolveUrlFinish(url, resolveId(url, FALSE)).url

\* C29: getModuleByUrl, getModuleById and getModulesByFile leave the three indices
\* and every node as they were, and getModuleByUrl returns undefined for a url
\* whose canonical form ensureEntryFromUrl never registered.
LookupsNeverCreate ==
  [][last'.op \in {"lookup", "byId", "byFile"} =>
       /\ mods' = mods
       /\ urlToModuleMap' = urlToModuleMap
       /\ idToModuleMap' = idToModuleMap
       /\ fileToModulesMap' = fileToModulesMap
       /\ (last'.op = "lookup" /\ CanonicalUrl(last'.raw) \notin DOMAIN returned) =>
            last'.ret = 0]_vars

\* C29 witness: getModuleByUrl returned undefined for a url that a node made by
\* createFileOnlyEntry has, and that ensureEntryFromUrl never registered
LookupMissedFileOnly ==
  /\ last.op = "lookup"
  /\ last.ret = 0
  /\ CanonicalUrl(last.raw) \notin DOMAIN returned
  /\ \E m \in Nodes : mods[m].url = CanonicalUrl(last.raw)

\* ------------------------------------------------------------- whole cascades
\* a call in flight is where it was, but for having been interleaved with
SamePosition(p) ==
  IF procs[p].pc = "idle" THEN procs'[p] = procs[p]
  ELSE procs'[p] = [procs[p] EXCEPT !.solo = FALSE]

\* C30: invalidateModule, onFileChange and invalidateAll have no suspension point.
\* One step holds the whole cascade: every node that reaches a target through
\* importer edges is processed, once, under the one seen set, and has lost its
\* ssrModule; no call in flight has moved and no edge has changed in between.
WholeCascade ==
  [][last'.op \in {"invalidate", "fileChange", "invalidateAll"} =>
       /\ NoDuplicates(last'.visits)
       /\ Range(last'.visits) = ImporterClosure(last'.targets)
       /\ last'.seen = ImporterClosure(last'.targets)
       /\ \A n \in ImporterClosure(last'.targets) : ~mods'[n].ssrModule
       /\ \A p \in Procs : SamePosition(p)
       /\ \A n \in Nodes :
            /\ mods'[n].importers = mods[n].importers
            /\ mods'[n].importedModules = mods[n].importedModules]_vars

\* C30 witness: a file change swept two targets, one the importer of the other,
\* while an updateModuleInfo call was suspended on the resolver
SweptWhileSuspended ==
  /\ last.op = "fileChange"
  /\ Cardinality(last.targets) = 2
  /\ Len(last.visits) = 2
  /\ \E a, b \in last.targets : a # b /\ a \in mods[b].importers
  /\ \E p \in Procs : procs[p].pc = "resolve" /\ procs[p].op = "update"

\* ------------------------------------------------------------- a stuck resolver
\* C31: a resolver call that never returns stalls only the call that awaits it:
\* with the call of slot 1 suspended for ever, an ensureEntryFromUrl call of slot 2
\* for another url still runs to its end.
StuckStallsOnlyItself == (procs[2].pc = "resolve") ~> (procs[2].pc = "idle")

\* C31 witness: with the call of slot 1 suspended, another call registered two
\* nodes of one file and onFileChange cleared them
RanBesideStuck ==
  /\ procs[1].pc = "resolve"
  /\ last.op = "fileChange"
  /\ Cardinality(last.targets) = 2
  /\ \A n \in last.targets : ~mods[n].transformResult

\* ------------------------------------------------------------- transport errors
\* C32: an 'error' event with code EADDRINUSE logs nothing; one with another code
\* is logged exactly once; neither closes the channel, touches a client or the
\* buffer, and a later send still reaches every open client.
ErrorsLoggedOnce ==
  [][/\ chan'.nErrors = chan.nErrors + 1 =>
          /\ chan'.logged = IF chan'.lastError.code = "EADDRINUSE" THEN chan.logged
                            ELSE Append(chan.logged, chan'.lastError.code)
          /\ chan'.wss = chan.wss
          /\ chan'.promise = chan.promise
          /\ clients' = clients
          /\ inbox' = inbox
          /\ bufferedError' = bufferedError
     /\ (nSends' = nSends + 1 /\ chan.nErrors > 0) =>
          /\ chan'.logged = chan.logged
          /\ \A s \in DOMAIN clients :
               clients[s] = OPEN => inbox'[s] = Append(inbox[s], JSONstringify(lastSend'))
          /\ DOMAIN clients = {} =>
               bufferedError' = IF lastSend'.type = "error" THEN lastSend'
                                ELSE bufferedError]_vars

\* C32 witness: after an EADDRINUSE and another error, of which one was logged, a
\* send reached an open client
SentAfterErrors ==
  /\ chan.nErrors = 2
  /\ chan.lastError.code = "EADDRINUSE"
  /\ chan.logged = <<"ECONNRESET">>
  /\ chan.lastError.atSend < nSends
  /\ \E s \in DOMAIN clients : inbox[s][Len(inbox[s])] = JSONstringify(lastSend)

\* ------------------------------------------------------------- a failing client
\* C33: when client.send fails for one client during the fan-out of a send, send
\* raises nothing to its caller and every other open client is given the payload.
SendFailureAbsorbed ==
  last.op = "send" =>
    /\ ~last.raised
    /\ \A s \in DOMAIN clients :
         (clients[s] = OPEN /\ s # last.failed) =>
           inbox[s][Len(inbox[s])] = JSONstringify(lastSend)

\* ------------------------------------------------------------- mode names
\* C34: loadEnv throws for the mode name 'local' before it looks for an env file,
\* changes process.env or returns a variable; it accepts every other mode name.
LocalModeRejected ==
  [][env'.nLoads = env.nLoads + 1 =>
       IF env'.mode = "local"
       THEN /\ env'.raised
            /\ env'.looked = <<>>
            /\ env'.processEnv = env.processEnv
            /\ env'.out = <<>>
       ELSE /\ ~env'.raised
            /\ Len(env'.looked) = 4]_vars

\* C34 witness: 'local' was rejected with .env.local and .env.local.local on disk,
\* one of them with a NODE_ENV, and process.env has no VITE_USER_NODE_ENV
LocalRejectedWithFiles ==
  /\ env.mode = "local"
  /\ env.raised
  /\ {<<".env", "local">>, <<".env", "local", "local">>} \subseteq DOMAIN env.disk
  /\ \E f \in DOMAIN env.disk : "NODE_ENV" \in DOMAIN env.disk[f]
  /\ "VITE_USER_NODE_ENV" \notin DOMAIN env.processEnv

\* ------------------------------------------------------------- a call alone
\* the node an entry of an argument Set stands for once the call has returned
EntryNode(item) ==
  IF item.isUrl THEN MapGet(urlToModuleMap, CanonicalUrl(item.url)) ELSE item.node

\* C35: when updateModuleInfo(X, imported, accepted, isSelfAccepting) has returned
\* and no other operation ran between its call and its return, X.importedModules is
\* the set of the nodes of the entries of imported, each of them has X among its
\* importers, X.acceptedHmrDeps is the set of the nodes of the entries of accepted,
\* and X.isSelfAccepting is the argument; however the resolver calls were timed.
SoloUpdateExact ==
  (last.op = "update" /\ last.solo) =>
    LET X == last.mod
        imports == {EntryNode(item) : item \in last.args.imported}
    IN  /\ 0 \notin imports
        /\ mods[X].importedModules = imports
        /\ \A dep \in imports : X \in mods[dep].importers
        /\ mods[X].acceptedHmrDeps = {EntryNode(item) : item \in last.args.accepted}
        /\ mods[X].isSelfAccepting = last.isSelfAccepting

\* C35 witness: a call alone returned with a url and a node among its imports, and
\* an accepted url
SoloUpdateResolved ==
  /\ last.op = "update" /\ last.solo
  /\ \E i, j \in last.args.imported : i.isUrl /\ ~j.isUrl
  /\ \E a \in last.args.accepted : a.isUrl
  /\ last.isSelfAccepting

\* ------------------------------------------------------------- the single slot
\* the sockets that were given a string
GivenTo(stringified, boxes) ==
  {s \in DOMAIN boxes : \E i \in 1..Len(boxes[s]) : boxes[s][i] = stringified}

\* C36: the buffer holds one payload.  A send that changes it leaves in it the
\* error just sent, whatever it held; a connection is given what the buffer holds
\* then, as the only client ever given it, and leaves the buffer empty; an error
\* that was buffered over is given to no client.
BufferHoldsLatest ==
  [][/\ (nSends' # nSends /\ bufferedError' # bufferedError) =>
          /\ bufferedError' = lastSend'
          /\ lastSend'.type = "error"
          /\ GivenTo(JSONstringify(bufferedError), inbox') = {}
     /\ (nSends' # nSends /\ lastSend'.type = "error" /\ DOMAIN clients = {}) =>
          bufferedError' = lastSend'
     /\ nConn' # nConn =>
          /\ bufferedError' = NoPayload
          /\ bufferedError # NoPayload =>
               /\ GivenTo(JSONstringify(bufferedError), inbox') = {nConn'}
               /\ Len(inbox'[nConn']) = 2
     /\ \A s, t \in gotBuffered : s # t => inbox[s][2] # inbox[t][2]]_vars

\* C36 witness: three errors were sent with no client attached, and the first
\* client was given the third alone
LatestOfThreeDelivered ==
  /\ nSends = 3
  /\ nConn = 1
  /\ inbox[1] = <<JSONstringify(Connected), JSONstringify([type |-> "error", seq |-> 3])>>
  /\ bufferedError = NoPayload

\* ------------------------------------------------------------- the buffer's life
\* C39 as stated: a buffered error implies an empty client set, and the buffer
\* loses what it holds only by giving it to a connecting client.
BufferedAlwaysDelivered ==
  [][/\ bufferedError # NoPayload => DOMAIN clients = {}
     /\ (bufferedError # NoPayload /\ bufferedError' # bufferedError) =>
          /\ nConn' # nConn
          /\ bufferedError' = NoPayload
          /\ inbox'[nConn'][2] = JSONstringify(bufferedError)]_vars

\* C39, amended: a buffered error implies an empty client set; the buffer is
\* emptied only by giving what it holds to a connecting client, never by a send
\* that is not an error and never by close(); what it holds is replaced only by an
\* error sent later, so the next client to connect is given the error buffered last.
BufferKeptUntilDelivered ==
  [][/\ bufferedError # NoPayload => DOMAIN clients = {}
     /\ (bufferedError # NoPayload /\ bufferedError' # bufferedError) =>
          \/ /\ nConn' # nConn
             /\ bufferedError' = NoPayload
             /\ inbox'[nConn'][2] = JSONstringify(bufferedError)
          \/ /\ nSends' # nSends
             /\ lastSend'.type = "error"
             /\ bufferedError' = lastSend'
     /\ (nConn' # nConn /\ bufferedError # NoPayload) =>
          inbox'[nConn'][2] = JSONstringify(bufferedError)]_vars

\* C39 witness: an error was buffered, an update was sent and discarded, close()
\* resolved, and the buffer still holds the error
BufferOutlivedClose ==
  /\ bufferedError = [type |-> "error", seq |-> 1]
  /\ lastSend = [type |-> "update", seq |-> 2]
  /\ chan.promise = "resolved"

\* ------------------------------------------------------------- stamps and markers
\* a url without its timestamp query and its import marker
Unstamped(url) == [url EXCEPT !.t = FALSE, !.imp = FALSE]

\* C37: the timestamp query and the import marker do not tell nodes apart.  For a
\* module that is registered, getModuleByUrl and ensureEntryFromUrl of its url with
\* either or both return its node and create none; getModuleById of an id with a
\* timestamp query returns what it returns for the id without; getModuleById ends
\* in its own step, with no await.
StampsIgnored ==
  [][/\ last'.op = "lookup" => last'.ret = getModuleByUrl(Unstamped(last'.raw), FALSE)
     /\ \A p \in Procs :
          (/\ procs[p].pc = "resolve" /\ procs[p].op = "ensure" /\ procs'[p].pc = "idle"
           /\ getModuleByUrl(Unstamped(procs[p].raw), FALSE) # 0) =>
            /\ last'.ret = getModuleByUrl(Unstamped(procs[p].raw), FALSE)
            /\ ~last'.created
            /\ graphVars' = graphVars
     /\ last'.op = "byId" =>
          /\ last'.ret = MapGet(idToModuleMap, [last'.id EXCEPT !.t = FALSE])
          /\ \A p \in Procs : procs'[p].pc = procs[p].pc]_vars

\* C37 witness: with two modules registered, a lookup by a url with a timestamp
\* query, an import marker and a hash found the second
StampedLookupFound ==
  /\ last.op = "lookup"
  /\ last.raw.t /\ last.raw.imp /\ last.raw.hash # ""
  /\ last.ret = 2
  /\ Len(mods) = 2

\* ------------------------------------------------------------- a node in seen
\* C38: a node's own caches are cleared also when the node is in seen.  After
\* onFileChange and invalidateAll every target has lost info, transformResult,
\* ssrTransformResult and ssrModule, a target reached earlier through another
\* included; invalidateModule(node, seen) with node in seen clears the three results
\* of node, visits nothing, and finds ssrModule of node and of every node that
\* reaches it through importer edges cleared.
OwnCachesAlwaysCleared ==
  [][/\ last'.op \in {"fileChange", "invalidateAll"} =>
          \A n \in last'.targets :
            /\ ~mods'[n].info /\ ~mods'[n].transformResult /\ ~mods'[n].ssrTransformResult
            /\ \A m \in ImporterClosure({n}) : ~mods'[m].ssrModule
     /\ (last'.op = "invalidate" /\ last'.targets \subseteq last'.seen0) =>
          \A n \in last'.targets :
            /\ ~mods'[n].info /\ ~mods'[n].transformResult /\ ~mods'[n].ssrTransformResult
            /\ last'.visits = <<>>
            /\ last'.seen = last'.seen0
            /\ \A m \in Nodes : mods'[m].ssrModule = mods[m].ssrModule
            /\ \A m \in ImporterClosure({n}) : ~mods'[m].ssrModule]_vars

\* C38 witness: a file change invalidated two nodes of one file, the second an
\* importer of the first and so in seen when its turn came, its results filled
\* before and cleared after
SeenTargetCleared ==
  /\ last.op = "fileChange"
  /\ last.targets = {1, 2}
  /\ last.visits = <<1, 2>>
  /\ 2 \in mods[1].importers
  /\ 1 \notin mods[2].importers
  /\ ~mods[2].transformResult

\* ------------------------------------------------------------- a resolver that changes
\* C40: the first resolution fixes a node's identity.  When ensureEntryFromUrl
\* returns for a canonical url that is in the url index, it returns the node
\* registered there, whatever id and meta the resolver answered this time, and the
\* nodes (their id, file and meta) and the three indices are left as they were.
FirstResolutionKept ==
  [][\A p \in Procs :
       (/\ procs[p].pc = "resolve" /\ procs[p].op = "ensure" /\ procs'[p].pc = "idle"
        /\ MapGet(urlToModuleMap, last'.url) # 0) =>
         /\ last'.ret = MapGet(urlToModuleMap, last'.url)
         /\ ~last'.created
         /\ mods' = mods
         /\ urlToModuleMap' = urlToModuleMap
         /\ DOMAIN idToModuleMap' = DOMAIN idToModuleMap
         /\ idToModuleMap' = idToModuleMap
         /\ fileToModulesMap' = fileToModulesMap]_vars

\* C40 witness: an entry was returned for a registered url although the resolver
\* answered another id and other metadata than the node has
MovedAnswerIgnored ==
  /\ last.op = "ensure"
  /\ ~last.created
  /\ last.resolvedId.pre = "/moved"
  /\ mods[last.ret].id.pre = "/root"
  /\ last.meta # mods[last.ret].meta
  /\ mods[last.ret].file.pre = "/root"
  /\ DOMAIN idToModuleMap = {mods[n].id : n \in Nodes}

====
